---- MODULE Spec2Model ----
(***************************************************************************)
(* A model of mkbsc: the (multi-player) knowledge-based subset             *)
(* construction on game graphs with imperfect information.                 *)
(*                                                                         *)
(* Conventions.                                                            *)
(*  - A State object is modelled by its `knowledges` tuple: a base state   *)
(*    with atom a is <<a>>, a state of a single-player KBSC game is <<S>>  *)
(*    with S a set of states of the previous game, and a state of the      *)
(*    synchronous product is <<S0, ..., S(n-1)>>.  The code never holds    *)
(*    two State objects with equal knowledges inside one game, so object   *)
(*    identity and value equality coincide.                                *)
(*  - Python indexes players from 0, TLA+ sequences from 1: player i of    *)
(*    the source is index i+1 here.                                        *)
(*  - Python tuples and lists are sequences.  Where the code iterates a    *)
(*    Python set, the model iterates it in the fixed order SetToSeq.       *)
(***************************************************************************)
EXTENDS Integers, Sequences, FiniteSets, TLC

(* ------------------------------ bounds --------------------------------- *)

\* largest number of transitions of a generated base game
MaxTrans == 2

(* ------------------------- generic helpers ----------------------------- *)

Range(s) == {s[i] : i \in 1..Len(s)}

RECURSIVE SetToSeq(_)
SetToSeq(S) ==
    IF S = {} THEN <<>>
    ELSE LET x == CHOOSE y \in S : TRUE IN <<x>> \o SetToSeq(S \ {x})

\* a Python tuple(...) / list comprehension over a sequence
SeqMap(Op(_), s) == [i \in 1..Len(s) |-> Op(s[i])]

RECURSIVE Intersection(_)
Intersection(sets) ==
    IF Len(sets) = 1 THEN sets[1]
    ELSE sets[1] \cap Intersection(Tail(sets))

(* --------------------------- state.py ---------------------------------- *)

\* State(*knowledges): the object is its knowledges tuple
State(knowledges) == knowledges

\* State.is_singleplayer
is_singleplayer(state) == Len(state) = 1

\* __getitem__ with the index ignored
getitem_first(state, index) == state[1]

\* State.__getitem__(index), index counted from 1
getitem(state, index) ==
    IF is_singleplayer(state) THEN state[1] ELSE state[index]

\* the while loop of consistent_base: states holds State objects that are
\* `level` applications of KBSC above the base game; _pick raises ValueError
\* on the empty set, and a base state has one knowledge
RECURSIVE consistent_loop(_, _, _)
consistent_loop(states, level, player_count) ==
    IF states = {} THEN [raised |-> TRUE, value |-> {}]
    ELSE IF level = 0 THEN [raised |-> FALSE, value |-> states]
    ELSE consistent_loop(
             Intersection(SeqMap(
                 LAMBDA state :
                     Intersection([player \in 1..player_count |->
                                      getitem(state, player)]),
                 SetToSeq(states))),
             level - 1, player_count)

\* State.consistent_base() of a state that is `depth` applications of KBSC
\* above the base game (is_base_state is depth = 0). With one knowledge
\* above the base game, states = {self.knowledges[0]} holds a frozenset and
\* _pick(states).knowledges raises AttributeError.
consistent_base(state, depth) ==
    IF Len(state) = 1 /\ depth > 0 THEN [raised |-> TRUE, value |-> {}]
    ELSE consistent_loop({state}, depth, Len(state))

(* ------------------------ transition.py -------------------------------- *)

\* Transition with start and end taken in the wrong order
Transition_swapped(start, joint_action, end) ==
    [start |-> end, joint_action |-> joint_action, end |-> start]

\* Transition(start, joint_action, end)
Transition(start, joint_action, end) ==
    [start |-> start, joint_action |-> joint_action, end |-> end]

(* --------------------- helper_functions.py ----------------------------- *)

\* the carry of _permute stepping the next index by two
RECURSIVE permute_carry_skip(_, _, _)
permute_carry_skip(iterables, indexes, i) ==
    IF indexes[i] >= Len(iterables[i]) /\ i + 1 <= Len(iterables)
    THEN permute_carry_skip(iterables,
                            [indexes EXCEPT ![i] = 0, ![i + 1] = @ + 2], i + 1)
    ELSE indexes

\* the inner while loop of _permute: carry an overflowing index to the next
RECURSIVE permute_carry(_, _, _)
permute_carry(iterables, indexes, i) ==
    IF indexes[i] >= Len(iterables[i]) /\ i + 1 <= Len(iterables)
    THEN permute_carry(iterables,
                       [indexes EXCEPT ![i] = 0, ![i + 1] = @ + 1], i + 1)
    ELSE indexes

\* the outer while loop of _permute; `out` collects what the generator yields
RECURSIVE permute_loop(_, _, _)
permute_loop(iterables, indexes, out) ==
    LET n == Len(iterables) IN
    IF indexes[n] < Len(iterables[n])
    THEN permute_loop(iterables,
             permute_carry(iterables, [indexes EXCEPT ![1] = @ + 1], 1),
             Append(out, [i \in 1..n |-> iterables[i][indexes[i] + 1]]))
    ELSE out

\* _permute(iterables): the sequence of tuples the generator yields
_permute(iterables) ==
    IF \E i \in 1..Len(iterables) : Len(iterables[i]) = 0
    THEN <<>>
    ELSE permute_loop(iterables, [i \in 1..Len(iterables) |-> 0], <<>>)

\* graph.neighbors(node) of the networkx MultiDiGraph
neighbors(graph, node) == {e[2] : e \in {d \in graph.edges : d[1] = node}}

\* _reachable(graph, initial): the worklist loop run to its end
RECURSIVE reachable_loop(_, _, _)
reachable_loop(graph, to_check, res) ==
    IF to_check = {} THEN res
    ELSE LET node == CHOOSE x \in to_check : TRUE
             new  == neighbors(graph, node) \ res
         IN reachable_loop(graph, (to_check \ {node}) \cup new, res \cup new)

_reachable(graph, initial) == reachable_loop(graph, {initial}, {})

\* consistent with the intersection forgotten: the first player's knowledge
consistent_first_only(states) ==
    IF Len(states) = 0 \/ Len(states[1]) # 1
    THEN {}
    ELSE getitem(states[1], 1)

\* consistent(states): states is a tuple of single-player KBSC states
consistent(states) ==
    IF Len(states) = 0 \/ Len(states[1]) # 1
    THEN {}
    ELSE Intersection([i \in 1..Len(states) |-> getitem(states[i], 1)])

(* -------------------------- alphabet.py -------------------------------- *)

\* Alphabet(*actions): a tuple of per-player tuples of actions
Alphabet(actions) == actions

\* Alphabet.permute()
permute(alphabet) == _permute(alphabet)

(* ------------------ observation.py / partitioning.py ------------------- *)

\* Observation(*states): a tuple of states
Observation(states) == states

\* Partitioning(*observations): a tuple of observations
Partitioning(observations) == observations

\* Partitioning.valid(states)
valid(partitioning, states) ==
    LET flat == [i \in 1..Len(partitioning) |-> Range(partitioning[i])] IN
    /\ \A i \in 1..Len(partitioning) :
           Cardinality(Range(partitioning[i])) = Len(partitioning[i])
    /\ \A i, j \in 1..Len(partitioning) : i # j => flat[i] \cap flat[j] = {}
    /\ UNION Range(flat) = states

(* ----------------------- multiplayer_game.py --------------------------- *)

\* the edges a DiGraph would keep: one per pair of endpoints
graph_edges_simple(transitions) ==
    {<<transitions[k].start, transitions[k].end, transitions[k].joint_action>> :
        k \in {i \in 1..Len(transitions) :
                  \A j \in (i + 1)..Len(transitions) :
                      \/ transitions[j].start # transitions[i].start
                      \/ transitions[j].end # transitions[i].end}}

\* the edges MultiDiGraph.add_edge(start, end, key=joint_action) leaves in
\* the graph: a second edge with the same endpoints and key replaces the
\* first
graph_edges(transitions) ==
    {<<t.start, t.end, t.joint_action>> : t \in Range(transitions)}

\* MultiplayerGame.__init__ (validate is False for every game built here)
MultiplayerGame(states, initial_state, alphabet, transitions, partitionings, remove_unreachable) ==
    LET edges     == graph_edges(transitions)
        nodes     == states \cup {e[1] : e \in edges} \cup {e[2] : e \in edges}
        full      == [nodes |-> nodes, edges |-> edges]
        to_remove == IF remove_unreachable
                     THEN (states \ _reachable(full, initial_state))
                              \ {initial_state}
                     ELSE {}
    IN [states        |-> states,
        initial_state |-> initial_state,
        alphabet      |-> alphabet,
        transitions   |-> transitions,
        partitionings |-> partitionings,
        player_count  |-> Len(alphabet),
        graph |-> [nodes |-> nodes \ to_remove,
                   edges |-> {e \in edges : e[1] \notin to_remove
                                            /\ e[2] \notin to_remove}]]

\* post with the comparison of the edge's action forgotten
post_any_action(game, action, states) ==
    UNION {neighbors(game.graph, s) : s \in states}

\* MultiplayerGame.post(action, states) for an iterable `states`
post(game, action, states) ==
    LET act == IF game.player_count = 1 THEN <<action>> ELSE action IN
    {nb \in UNION {neighbors(game.graph, s) : s \in states} :
        \E s \in states : <<s, nb, act>> \in game.graph.edges}

\* MultiplayerGame.post(action, state) for one State object, which has no
\* __iter__ and is wrapped into a 1-tuple
post_state(game, action, state) == post(game, action, {state})

\* project with the joint actions left as they are
project_keep_joint_action(game, player) ==
    MultiplayerGame(
        game.states,
        game.initial_state,
        Alphabet(<<game.alphabet[player]>>),
        game.transitions,
        <<game.partitionings[player]>>,
        FALSE)

\* project with the first player's partitioning for every player
project_first_partitioning(game, player) ==
    MultiplayerGame(
        game.states,
        game.initial_state,
        Alphabet(<<game.alphabet[player]>>),
        [k \in 1..Len(game.transitions) |->
            Transition(game.transitions[k].start,
                       <<game.transitions[k].joint_action[player]>>,
                       game.transitions[k].end)],
        <<game.partitionings[1]>>,
        FALSE)

\* MultiplayerGame.project(player)
project(game, player) ==
    MultiplayerGame(
        game.states,
        game.initial_state,
        Alphabet(<<game.alphabet[player]>>),
        [k \in 1..Len(game.transitions) |->
            Transition(game.transitions[k].start,
                       <<game.transitions[k].joint_action[player]>>,
                       game.transitions[k].end)],
        <<game.partitionings[player]>>,
        FALSE)


\* kbsc_visit with the successors not split by observation: the knowledge
\* is the whole of post_states
RECURSIVE kbsc_visit_no_split(_, _, _, _)
kbsc_visit_no_split(game, fromstate, pairs, acc) ==
    IF pairs = <<>> THEN acc
    ELSE
      LET action      == pairs[1][1]
          knowledge   == post(game, action, fromstate[1])
          tostate     == State(<<knowledge>>)
          known       == knowledge \in DOMAIN acc.states
      IN kbsc_visit_no_split(game, fromstate, Tail(pairs),
             IF knowledge = {} THEN acc
             ELSE [states |-> IF known THEN acc.states
                              ELSE acc.states @@ (knowledge :> tostate),
                   queue  |-> IF known THEN acc.queue
                              ELSE <<tostate>> \o acc.queue,
                   transitions |->
                       Append(acc.transitions,
                              Transition(fromstate, <<action>>, tostate))])

\* KBSC, single-player branch, the body of `for obs in partitioning` run
\* for every (action, obs) of `pairs` in turn; acc holds the locals states
\* (a dict from knowledge to State), queue and transitions
RECURSIVE kbsc_visit(_, _, _, _)
kbsc_visit(game, fromstate, pairs, acc) ==
    IF pairs = <<>> THEN acc
    ELSE
      LET action      == pairs[1][1]
          obs         == pairs[1][2]
          post_states == post(game, action, fromstate[1])
          knowledge   == post_states \cap Range(obs)
          tostate     == IF knowledge \in DOMAIN acc.states
                         THEN acc.states[knowledge]
                         ELSE State(<<knowledge>>)
          next ==
            IF knowledge = {} THEN acc
            ELSE [states |-> IF knowledge \in DOMAIN acc.states
                             THEN acc.states
                             ELSE acc.states @@ (knowledge :> tostate),
                  queue  |-> IF knowledge \in DOMAIN acc.states
                             THEN acc.queue
                             ELSE <<tostate>> \o acc.queue,
                  transitions |->
                      Append(acc.transitions,
                             Transition(fromstate, <<action>>, tostate))]
      IN kbsc_visit(game, fromstate, Tail(pairs), next)

\* kbsc_pairs with the loop over the observations stopping one short
kbsc_pairs_skip_last_obs(game) ==
    LET acts == game.alphabet[1]
        part == game.partitionings[1]
        no   == Len(part) - 1
    IN [k \in 1..(Len(acts) * no) |->
           <<acts[((k - 1) \div no) + 1], part[((k - 1) % no) + 1]>>]

\* the (action, obs) pairs in the order of the two nested for loops
kbsc_pairs(game) ==
    LET acts == game.alphabet[1]
        part == game.partitionings[1]
        no   == Len(part)
    IN [k \in 1..(Len(acts) * no) |->
           <<acts[((k - 1) \div no) + 1], part[((k - 1) % no) + 1]>>]

\* KBSC, single-player branch: the constructor call that returns the game
kbsc_result(game, initial_state, states, transitions) ==
    LET sts == {states[k] : k \in DOMAIN states} IN
    MultiplayerGame(
        sts,
        initial_state,
        game.alphabet,
        transitions,
        <<Partitioning(SeqMap(LAMBDA st : Observation(<<st>>), SetToSeq(sts)))>>,
        TRUE)

\* product_candidates with each player's successors filtered against the
\* possible states instead of their successors
product_candidates_filter_possible(game, games, state_tuple, possible, joint_action) ==
    _permute(SeqMap(SetToSeq,
        [i \in 1..game.player_count |->
            {st \in post_state(games[i], joint_action[i], state_tuple[i]) :
                st[1] \cap possible # {}}]))

\* product_candidates without the filter against possible_post
product_candidates_unfiltered(game, games, state_tuple, possible, joint_action) ==
    _permute(SeqMap(SetToSeq,
        [i \in 1..game.player_count |->
            post_state(games[i], joint_action[i], state_tuple[i])]))

\* _synchronous_product: the tuples `for possible_knowledge in
\* _permute(players_post)` visits for one joint action
product_candidates(game, games, state_tuple, possible, joint_action) ==
    LET possible_post == post(game, joint_action, possible)
        players_post  ==
            [i \in 1..game.player_count |->
                {st \in post_state(games[i], joint_action[i], state_tuple[i]) :
                    st[1] \cap possible_post # {}}]
    IN _permute(SeqMap(SetToSeq, players_post))

\* product_pairs with the loop over the joint actions stopping one short
RECURSIVE product_pairs_skip_last_action(_, _, _, _, _)
product_pairs_skip_last_action(game, games, state_tuple, possible, joint_actions) ==
    IF Len(joint_actions) <= 1 THEN <<>>
    ELSE SeqMap(LAMBDA pk : <<joint_actions[1], pk>>,
                product_candidates(game, games, state_tuple, possible,
                                   joint_actions[1]))
         \o product_pairs_skip_last_action(game, games, state_tuple, possible,
                                           Tail(joint_actions))

\* the (joint_action, possible_knowledge) pairs in the order of the two
\* nested for loops of _synchronous_product
RECURSIVE product_pairs(_, _, _, _, _)
product_pairs(game, games, state_tuple, possible, joint_actions) ==
    IF joint_actions = <<>> THEN <<>>
    ELSE SeqMap(LAMBDA pk : <<joint_actions[1], pk>>,
                product_candidates(game, games, state_tuple, possible,
                                   joint_actions[1]))
         \o product_pairs(game, games, state_tuple, possible,
                          Tail(joint_actions))

\* product_visit that leaves the loop over the pairs at the first tuple
\* that is not consistent (break instead of continue)
RECURSIVE product_visit_break(_, _, _)
product_visit_break(state_tuple, pairs, acc) ==
    IF pairs = <<>> THEN acc
    ELSE
      LET joint_action       == pairs[1][1]
          possible_knowledge == pairs[1][2]
          knowledge_tuple    == SeqMap(LAMBDA st : st[1], possible_knowledge)
          cons               == consistent(possible_knowledge)
          known              == knowledge_tuple \in DOMAIN acc.states
          k                  == SeqMap(LAMBDA st : st[1], state_tuple)
          sts == IF known THEN acc.states
                 ELSE acc.states @@ (knowledge_tuple :> State(knowledge_tuple))
      IN IF ~known /\ cons = {} THEN acc
         ELSE product_visit_break(state_tuple, Tail(pairs),
                  [states |-> sts,
                   queue  |-> IF known THEN acc.queue
                              ELSE <<<<possible_knowledge, cons>>>> \o acc.queue,
                   transitions |->
                       Append(acc.transitions,
                              Transition(sts[k], joint_action,
                                         sts[knowledge_tuple]))])

\* _synchronous_product: the body of `for possible_knowledge in ...` run
\* for every pair in turn; acc holds the locals states (a dict from
\* knowledge tuple to State), queue and transitions
RECURSIVE product_visit(_, _, _)
product_visit(state_tuple, pairs, acc) ==
    IF pairs = <<>> THEN acc
    ELSE
      LET joint_action       == pairs[1][1]
          possible_knowledge == pairs[1][2]
          knowledge_tuple    == SeqMap(LAMBDA st : st[1], possible_knowledge)
          cons               == consistent(possible_knowledge)
          known              == knowledge_tuple \in DOMAIN acc.states
          k                  == SeqMap(LAMBDA st : st[1], state_tuple)
          next ==
            IF ~known /\ cons = {} THEN acc
            ELSE
              LET sts == IF known THEN acc.states
                         ELSE acc.states
                              @@ (knowledge_tuple :> State(knowledge_tuple))
              IN [states |-> sts,
                  queue  |-> IF known THEN acc.queue
                             ELSE <<<<possible_knowledge, cons>>>> \o acc.queue,
                  transitions |->
                      Append(acc.transitions,
                             Transition(sts[k], joint_action,
                                        sts[knowledge_tuple]))]
      IN product_visit(state_tuple, Tail(pairs), next)

\* product_partitioning that puts all states into one observation
product_partitioning_coarse(states, i) ==
    Partitioning(<<Observation(SetToSeq(states))>>)

\* product_partitioning grouping the states whose component overlaps the
\* key instead of those whose component equals it
product_partitioning_overlap(states, i) ==
    LET keys == {getitem(st, i) : st \in states} IN
    Partitioning(SeqMap(
        LAMBDA knowledge :
            Observation(SetToSeq({st \in states :
                                     getitem(st, i) \cap knowledge # {}})),
        SetToSeq(keys)))

\* _synchronous_product: one player's partitioning, grouping the product
\* states by state[i]
product_partitioning(states, i) ==
    LET keys == {getitem(st, i) : st \in states} IN
    Partitioning(SeqMap(
        LAMBDA knowledge :
            Observation(SetToSeq({st \in states : getitem(st, i) = knowledge})),
        SetToSeq(keys)))

\* _synchronous_product: the constructor call that returns the game
product_result(game, initial_state, states, transitions) ==
    LET sts == {states[k] : k \in DOMAIN states} IN
    MultiplayerGame(
        sts,
        initial_state,
        game.alphabet,
        transitions,
        [i \in 1..game.player_count |-> product_partitioning(sts, i)],
        FALSE)


\* MultiplayerGame.create for explicit edges and groupings (no Ellipsis, no
\* set-valued edge ends); the arguments used here pass its validation
create(content, initial, alphabet, transition_edges, state_groupings) ==
    MultiplayerGame(
        {State(<<x>>) : x \in content},
        State(<<initial>>),
        Alphabet(alphabet),
        SeqMap(LAMBDA edge :
                   Transition(State(<<edge[1]>>), edge[2], State(<<edge[3]>>)),
               transition_edges),
        SeqMap(LAMBDA grouping :
                   Partitioning(SeqMap(
                       LAMBDA group :
                           Observation(SeqMap(LAMBDA x : State(<<x>>), group)),
                       grouping)),
               state_groupings),
        FALSE)

(* ------------- multiplayer_game.py: create with validation ------------- *)

\* Alphabet.__init__: `assert action not in s` fails, an action comes twice
\* in one player's actions
Alphabet_raises(actions) ==
    \E i \in 1..Len(actions) : \E j, k \in 1..Len(actions[i]) :
        j < k /\ actions[i][j] = actions[i][k]

\* _lookup(states, knowledge) raises KeyError: no state holds the knowledge
_lookup_raises(states, knowledge) == State(<<knowledge>>) \notin states

\* __init__ with validate=True testing every action against every player's
\* alphabet
validate_raises_any_alphabet(states, alphabet, transitions, partitionings) ==
    \/ Len(partitionings) # Len(alphabet)
    \/ \E i \in 1..Len(partitionings) : ~valid(partitionings[i], states)
    \/ \E k \in 1..Len(transitions) :
          \/ transitions[k].start \notin states
          \/ transitions[k].end \notin states
          \/ \E i \in 1..Len(transitions[k].joint_action) :
                \A j \in 1..Len(alphabet) :
                    transitions[k].joint_action[i] \notin Range(alphabet[j])

\* MultiplayerGame.__init__ with validate=True: one of its asserts fails,
\* or alphabet[i] does not exist
validate_raises(states, alphabet, transitions, partitionings) ==
    \/ Len(partitionings) # Len(alphabet)
    \/ \E i \in 1..Len(partitionings) : ~valid(partitionings[i], states)
    \/ \E k \in 1..Len(transitions) :
          \/ transitions[k].start \notin states
          \/ transitions[k].end \notin states
          \/ \E i \in 1..Len(transitions[k].joint_action) :
                \/ i > Len(alphabet)
                \/ transitions[k].joint_action[i] \notin Range(alphabet[i])

\* MultiplayerGame.create raises: a _lookup fails, Alphabet(*alphabet)
\* fails or the constructor's validation fails
create_raises(content, initial, alphabet, transition_edges, state_groupings) ==
    LET states == {State(<<x>>) : x \in content}
        game   == create(content, initial, alphabet, transition_edges,
                         state_groupings)
    IN \/ _lookup_raises(states, initial)
       \/ Alphabet_raises(alphabet)
       \/ \E k \in 1..Len(transition_edges) :
             \/ _lookup_raises(states, transition_edges[k][1])
             \/ _lookup_raises(states, transition_edges[k][3])
       \/ \E i \in 1..Len(state_groupings) :
             \E g \in 1..Len(state_groupings[i]) :
                 \E k \in 1..Len(state_groupings[i][g]) :
                     _lookup_raises(states, state_groupings[i][g][k])
       \/ validate_raises(game.states, game.alphabet, game.transitions,
                          game.partitionings)

(* --------------- multiplayer_game.py: KBSC as one function ------------- *)

\* KBSC, single-player branch: the while loop run to its end; loc holds
\* the locals states, queue, tested and transitions
RECURSIVE single_loop(_, _)
single_loop(game, loc) ==
    IF loc.queue = <<>> THEN loc
    ELSE LET fromstate == loc.queue[Len(loc.queue)]
             rest      == SubSeq(loc.queue, 1, Len(loc.queue) - 1)
         IN IF fromstate \in loc.tested
            THEN single_loop(game, [loc EXCEPT !.queue = rest])
            ELSE LET acc == kbsc_visit(game, fromstate, kbsc_pairs(game),
                                [states |-> loc.states, queue |-> rest,
                                 transitions |-> loc.transitions])
                 IN single_loop(game,
                        [states |-> acc.states, queue |-> acc.queue,
                         tested |-> loc.tested \cup {fromstate},
                         transitions |-> acc.transitions])

\* KBSC of a game of one player
KBSC_single(game) ==
    LET initial_state == State(<<{game.initial_state}>>)
        loc == single_loop(game,
                   [states |-> (getitem(initial_state, 1) :> initial_state),
                    queue |-> <<initial_state>>,
                    tested |-> {},
                    transitions |-> <<>>])
    IN kbsc_result(game, initial_state, loc.states, loc.transitions)

\* _synchronous_product: the while loop run to its end
RECURSIVE product_loop(_, _, _)
product_loop(game, games, loc) ==
    IF loc.queue = <<>> THEN loc
    ELSE LET state_tuple == loc.queue[Len(loc.queue)][1]
             possible    == loc.queue[Len(loc.queue)][2]
             rest        == SubSeq(loc.queue, 1, Len(loc.queue) - 1)
         IN IF state_tuple \in loc.tested
            THEN product_loop(game, games, [loc EXCEPT !.queue = rest])
            ELSE LET acc == product_visit(state_tuple,
                                product_pairs(game, games, state_tuple,
                                              possible, permute(game.alphabet)),
                                [states |-> loc.states, queue |-> rest,
                                 transitions |-> loc.transitions])
                 IN product_loop(game, games,
                        [states |-> acc.states, queue |-> acc.queue,
                         tested |-> loc.tested \cup {state_tuple},
                         transitions |-> acc.transitions])

\* MultiplayerGame._synchronous_product(games)
_synchronous_product(game, games) ==
    LET initial_states     == SeqMap(LAMBDA g : g.initial_state, games)
        initial_knowledges == SeqMap(LAMBDA st : st[1], initial_states)
        loc == product_loop(game, games,
                   [states |-> (initial_knowledges :> State(initial_knowledges)),
                    queue |-> << <<initial_states, consistent(initial_states)>> >>,
                    tested |-> {},
                    transitions |-> <<>>])
    IN product_result(game, loc.states[initial_knowledges], loc.states,
                      loc.transitions)

\* MultiplayerGame.KBSC()
KBSC(game) ==
    IF game.player_count = 1 THEN KBSC_single(game)
    ELSE _synchronous_product(game,
             [player \in 1..game.player_count |->
                 KBSC_single(project(game, player))])

(* ------------------- multiplayer_game.py: isomorphic ------------------- *)

\* the node "hidden" that isomorphic adds to both graphs
hidden == <<"hidden">>

\* a State object as a node of the compared graphs
node(state) == <<"state", state>>

\* an edge of the compared MultiDiGraphs.  Its key is a joint action (field
\* tuple; int is -1) or an integer networkx chose (field int; tuple is <<>>).
\* Its attribute dict is {label, action} for a transition, where the label
\* is a function of the action, {player} for an observation (players count
\* from 1 here, 0 stands for no such attribute) and {} for the hidden edge.
edge(start, end, key_tuple, key_int, action, player) ==
    [start |-> start, end |-> end,
     key  |-> [tuple |-> key_tuple, int |-> key_int],
     data |-> [action |-> action, player |-> player]]

\* self.graph.copy(): the edges add_edge(start, end, key=joint_action,
\* label=..., action=joint_action) put into the graph
graph_copy(game) ==
    [nodes |-> {node(s) : s \in game.graph.nodes},
     edges |-> {edge(node(e[1]), node(e[2]), e[3], -1, e[3], 0) :
                    e \in game.graph.edges}]

\* networkx MultiDiGraph.new_edge_key(u, v): the number of edges from u to
\* v, raised until it is no key of such an edge
RECURSIVE free_key(_, _)
free_key(keydict, key) ==
    IF [tuple |-> <<>>, int |-> key] \in keydict
    THEN free_key(keydict, key + 1)
    ELSE key

new_edge_key(graph, u, v) ==
    LET keydict == {e.key : e \in {d \in graph.edges :
                                      d.start = u /\ d.end = v}}
    IN free_key(keydict, Cardinality(keydict))

\* add_edge(u, v, player=...) without a key, which also adds the nodes
add_edge(graph, u, v, player) ==
    [nodes |-> graph.nodes \cup {u, v},
     edges |-> graph.edges \cup
                  {edge(u, v, <<>>, new_edge_key(graph, u, v), <<>>, player)}]

\* permutations(observation, 2), in the order itertools yields them
permutations2(observation) ==
    LET n   == Len(observation)
        idx == [k \in 1..(n * (n - 1)) |->
                   LET a == ((k - 1) \div (n - 1)) + 1
                       r == ((k - 1) % (n - 1)) + 1
                   IN <<a, IF r < a THEN r ELSE r + 1>>]
    IN [k \in 1..(n * (n - 1)) |->
           <<observation[idx[k][1]], observation[idx[k][2]]>>]

\* the loop over permutations(observation, 2) of one observation
RECURSIVE add_pairs(_, _, _)
add_pairs(graph, pairs, player) ==
    IF pairs = <<>> THEN graph
    ELSE add_pairs(add_edge(graph, node(pairs[1][1]), node(pairs[1][2]),
                            player),
                   Tail(pairs), player)

\* the loop over the observations of one partitioning
RECURSIVE add_observations(_, _, _)
add_observations(graph, partitioning, player) ==
    IF partitioning = <<>> THEN graph
    ELSE add_observations(
             IF Len(partitioning[1]) > 1
             THEN add_pairs(graph, permutations2(partitioning[1]), player)
             ELSE graph,
             Tail(partitioning), player)

\* the loop over enumerate(game.partitionings), from player on
RECURSIVE add_partitionings(_, _, _)
add_partitionings(graph, game, player) ==
    IF player > Len(game.partitionings) THEN graph
    ELSE add_partitionings(
             add_observations(graph, game.partitionings[player], player),
             game, player + 1)

\* the compared graph without the edge from the hidden node to the initial
\* state
compared_graph_unpinned(game, consider_observations) ==
    LET g == IF consider_observations
             THEN add_partitionings(graph_copy(game), game, 1)
             ELSE graph_copy(game)
    IN [nodes |-> g.nodes \cup {hidden}, edges |-> g.edges]

\* the compared graph with every observation edge marked as player 1's
compared_graph_one_player(game, consider_observations) ==
    LET g == IF consider_observations
             THEN add_partitionings(graph_copy(game), game, 1)
             ELSE graph_copy(game)
    IN [nodes |-> g.nodes \cup {hidden, node(game.initial_state)},
        edges |-> {IF e.data.player > 0
                   THEN [e EXCEPT !.data.player = 1] ELSE e :
                       e \in g.edges}
                  \cup {edge(hidden, node(game.initial_state),
                             <<>>, 0, <<>>, 0)}]

\* the graph isomorphic hands to is_isomorphic for one of the two games
compared_graph(game, consider_observations) ==
    LET g == IF consider_observations
             THEN add_partitionings(graph_copy(game), game, 1)
             ELSE graph_copy(game)
    IN [nodes |-> g.nodes \cup {hidden, node(game.initial_state)},
        edges |-> g.edges \cup {edge(hidden, node(game.initial_state),
                                     <<>>, 0, <<>>, 0)}]

\* G[u][v] of a MultiDiGraph: the attribute dicts of the edges from u to v
\* by key
adjacency(graph, u, v) ==
    {<<e.key, e.data>> : e \in {d \in graph.edges :
                                   d.start = u /\ d.end = v}}

\* the nodes of a graph in the order a search from `found` meets them,
\* the nodes it cannot reach last
RECURSIVE search_order(_, _)
search_order(graph, found) ==
    LET seen == Range(found)
        near == {n \in graph.nodes \ seen : \E m \in seen :
                    adjacency(graph, m, n) # {} \/ adjacency(graph, n, m) # {}}
    IN IF seen = graph.nodes THEN found
       ELSE LET pool == IF near # {} THEN near ELSE graph.nodes \ seen
            IN search_order(graph, found \o <<CHOOSE n \in pool : TRUE>>)

\* the matching of nodes `order` of a to nodes of b extends `core`, a
\* function from matched nodes of a to nodes of b, to an isomorphism:
\* mapped pairs have equal numbers of edges and edge_match, x == y on the
\* two dicts G[u][v], holds of them
RECURSIVE match(_, _, _, _)
match(a, b, order, core) ==
    IF order = <<>> THEN TRUE
    ELSE LET u     == order[1]
             image == {core[m] : m \in DOMAIN core}
         IN \E w \in b.nodes \ image :
               /\ adjacency(a, u, u) = adjacency(b, w, w)
               /\ \A m \in DOMAIN core :
                     /\ adjacency(a, u, m) = adjacency(b, w, core[m])
                     /\ adjacency(a, m, u) = adjacency(b, core[m], w)
               /\ match(a, b, Tail(order), core @@ (u :> w))

\* networkx is_isomorphic(a, b, edge_match=lambda x, y: x == y)
is_isomorphic(a, b) ==
    /\ Cardinality(a.nodes) = Cardinality(b.nodes)
    /\ match(a, b, search_order(a, <<hidden>>), <<>>)

\* MultiplayerGame.isomorphic(other, consider_observations)
isomorphic(self, other, consider_observations) ==
    IF Cardinality(self.states) # Cardinality(other.states) THEN FALSE
    ELSE is_isomorphic(compared_graph(self, consider_observations),
                       compared_graph(other, consider_observations))

(* -------------------------- serialization.py --------------------------- *)

\* The text of a game is held line by line and field by field: a number
\* written with str() and read back with int() is kept as the number,
\* and what repr() writes for an action or an atom is kept as characters.

Digits == <<"0", "1", "2", "3", "4", "5", "6", "7", "8", "9">>

\* the decimal digits of a natural number
RECURSIVE str_nat(_)
str_nat(n) ==
    IF n < 10 THEN <<Digits[n + 1]>>
    ELSE str_nat(n \div 10) \o <<Digits[(n % 10) + 1]>>

\* repr() of an integer
repr_int(n) == IF n < 0 THEN <<"-">> \o str_nat(0 - n) ELSE str_nat(n)

\* repr() of a string without quotes or backslashes in it: the opening
\* quote, its characters taken as one piece, the closing quote
repr_str(s) == <<"'", s, "'">>

\* the first position of x in the sequence s
index_of(s, x) == CHOOSE k \in 1..Len(s) : s[k] = x /\ \A j \in 1..(k - 1) : s[j] # x

\* _serialize: the ids alphabet_dicts gives the actions, counted on from
\* one player to the next
alphabet_dicts(alphabet, player, action) ==
    LET RECURSIVE before(_)
        before(i) == IF i = 0 THEN 0 ELSE before(i - 1) + Len(alphabet[i])
    IN before(player - 1) + index_of(alphabet[player], action) - 1

\* serialize_levels with state_id decreased once more after every level
RECURSIVE serialize_levels_skip(_, _, _, _, _, _)
serialize_levels_skip(game, states, depth, state_id, state_dict, state_stack) ==
    IF depth = 0
    THEN [states |-> states, state_id |-> state_id,
          state_dict |-> state_dict, state_stack |-> state_stack]
    ELSE LET n         == Len(states)
             level     == Len(state_dict) + 1
             here      == [s \in Range(states) |->
                              state_id - (index_of(states, s) - 1)]
             newstates == UNION {getitem(states[k], player) :
                                    k \in 1..n,
                                    player \in 1..game.player_count}
         IN serialize_levels_skip(game, SetToSeq(newstates), depth - 1,
                             state_id - n - 1, Append(state_dict, here),
                             state_stack \o [k \in 1..n |-> <<level, states[k]>>])

\* _serialize: the loop `while type(_pick(states)[0]) is frozenset`, which
\* runs once per level of nesting (depth says how many levels are left).
\* state_dict is kept as one dict per level, the game's own states first;
\* state_stack holds the states with the index of their level.
RECURSIVE serialize_levels(_, _, _, _, _, _)
serialize_levels(game, states, depth, state_id, state_dict, state_stack) ==
    IF depth = 0
    THEN [states |-> states, state_id |-> state_id,
          state_dict |-> state_dict, state_stack |-> state_stack]
    ELSE LET n         == Len(states)
             level     == Len(state_dict) + 1
             here      == [s \in Range(states) |->
                              state_id - (index_of(states, s) - 1)]
             newstates == UNION {getitem(states[k], player) :
                                    k \in 1..n,
                                    player \in 1..game.player_count}
         IN serialize_levels(game, SetToSeq(newstates), depth - 1,
                             state_id - n, Append(state_dict, here),
                             state_stack \o [k \in 1..n |-> <<level, states[k]>>])

\* _serialize(game) for a game whose states are nested depth levels deep;
\* the section headers, the empty lines and the attributes are left out
_serialize(game, depth) ==
    LET top      == serialize_levels(game, SetToSeq(game.states), depth, 0,
                                     <<>>, <<>>)
        states   == top.states
        id_add   == (0 - top.state_id) + Len(states) - 1
        first_id == top.state_id - Len(states)
        base     == [s \in Range(states) |-> first_id + index_of(states, s)]
        dict     == Append(top.state_dict, base)
        stack    == top.state_stack
        id(level, s) == dict[level][s] + id_add
        knowledge_line(entry) ==
            <<id(entry[1], entry[2]),
              [p \in 1..Len(entry[2]) |->
                  SeqMap(LAMBDA s : id(entry[1] + 1, s),
                         SetToSeq(entry[2][p]))]>>
    IN [alphabet |->
            [i \in 1..Len(game.alphabet) |-> SeqMap(repr_str, game.alphabet[i])],
        base_states |->
            [k \in 1..Len(states) |->
                <<first_id + k + id_add, repr_int(getitem(states[k], 1))>>],
        knowledge_states |->
            [j \in 1..Len(stack) |-> knowledge_line(stack[Len(stack) + 1 - j])],
        initial_state |-> id(1, game.initial_state),
        observations |->
            [i \in 1..Len(game.partitionings) |->
                SeqMap(LAMBDA observation :
                           SeqMap(LAMBDA s : id(1, s), observation),
                       game.partitionings[i])],
        transitions |->
            [k \in 1..Len(game.transitions) |->
                <<id(1, game.transitions[k].start),
                  [player \in 1..Len(game.transitions[k].joint_action) |->
                      alphabet_dicts(game.alphabet, player,
                                     game.transitions[k].joint_action[player])],
                  id(1, game.transitions[k].end)>>]]

\* the characters that open a quoted value
Quotes == {"'", "\""}

\* int() of a sequence of decimal digits
RECURSIVE int_digits(_)
int_digits(chars) ==
    IF chars = <<>> THEN 0
    ELSE int_digits(SubSeq(chars, 1, Len(chars) - 1)) * 10
             + (index_of(Digits, chars[Len(chars)]) - 1)

\* _parse, base states: the value after "=" is taken for a string when it
\* opens with a quote (value[1:-2]) and for an integer when it opens with a
\* digit
base_value(chars) ==
    IF chars[1] \in Quotes THEN SubSeq(chars, 2, Len(chars) - 2)
    ELSE int_digits(chars)

\* _parse, base states: raise TypeError(line, value)
base_value_raises(chars) ==
    chars[1] \notin Quotes /\ chars[1] \notin Range(Digits)

\* _parse, alphabet: the actions of one line, each read from its opening
\* quote to the next quote of the same kind (the actions here are strings)
parse_actions(line) == SeqMap(LAMBDA token : token[2], line)

\* _parse, knowledge states: the loop over the lines.  acc holds
\* state_dict, the nesting level of every id, top_states kept as one set
\* per level (index level + 1), and whether a lookup has failed
RECURSIVE parse_knowledge(_, _)
parse_knowledge(lines, acc) ==
    IF lines = <<>> \/ acc.raised THEN acc
    ELSE LET id     == lines[1][1]
             parts  == lines[1][2]
             refs   == UNION {Range(parts[p]) : p \in 1..Len(parts)}
         IN IF ~(refs \subseteq DOMAIN acc.state_dict)
            THEN [acc EXCEPT !.raised = TRUE]
            ELSE
              LET knowledge == [p \in 1..Len(parts) |->
                                   {acc.state_dict[i] : i \in Range(parts[p])}]
                  state == State(knowledge)
                  lvl   == acc.level[parts[1][1]] + 1
                  tops  == IF Len(acc.top_states) < lvl + 1
                           THEN Append(acc.top_states, {})
                           ELSE acc.top_states
              IN parse_knowledge(Tail(lines),
                     [state_dict |-> (id :> state) @@ acc.state_dict,
                      level      |-> (id :> lvl) @@ acc.level,
                      top_states |->
                          [tops EXCEPT
                              ![lvl + 1] = @ \cup {state},
                              ![lvl] = @ \ UNION {knowledge[p] :
                                                     p \in 1..Len(knowledge)}],
                      raised     |-> FALSE])

\* stands for the game of a parse that raised
NoParse == <<>>

\* _parse(lines, validate=True) followed by _create_from_serialized: the
\* game, or that an error was raised
_parse(lines) ==
    LET alphabet == [i \in 1..Len(lines.alphabet) |->
                        parse_actions(lines.alphabet[i])]
        RECURSIVE flat(_)
        flat(i) == IF i = 0 THEN <<>> ELSE flat(i - 1) \o alphabet[i]
        alphabet_dict == flat(Len(alphabet))
        base_ids == {lines.base_states[k][1] : k \in 1..Len(lines.base_states)}
        last(id) == CHOOSE k \in 1..Len(lines.base_states) :
                        /\ lines.base_states[k][1] = id
                        /\ \A j \in (k + 1)..Len(lines.base_states) :
                               lines.base_states[j][1] # id
        base_raises == \E k \in 1..Len(lines.base_states) :
                           base_value_raises(lines.base_states[k][2])
        base_dict == [id \in base_ids |->
                         State(<<base_value(lines.base_states[last(id)][2])>>)]
        acc == parse_knowledge(lines.knowledge_states,
                   [state_dict |-> base_dict,
                    level      |-> [id \in base_ids |-> 0],
                    top_states |-> <<{base_dict[id] : id \in base_ids}>>,
                    raised     |-> FALSE])
        state_dict == acc.state_dict
        tops       == acc.top_states
        states     == tops[Len(tops)]
        used_ids   ==
            {lines.initial_state}
            \cup UNION {Range(observation) :
                           observation \in UNION {Range(lines.observations[i]) :
                               i \in 1..Len(lines.observations)}}
            \cup UNION {{lines.transitions[k][1], lines.transitions[k][3]} :
                           k \in 1..Len(lines.transitions)}
        used_actions ==
            UNION {Range(lines.transitions[k][2]) :
                      k \in 1..Len(lines.transitions)}
        state_groupings ==
            [i \in 1..Len(lines.observations) |->
                SeqMap(LAMBDA observation :
                           SeqMap(LAMBDA s : state_dict[s], observation),
                       lines.observations[i])]
        transitions ==
            [k \in 1..Len(lines.transitions) |->
                Transition(state_dict[lines.transitions[k][1]],
                           SeqMap(LAMBDA action : alphabet_dict[action + 1],
                                  lines.transitions[k][2]),
                           state_dict[lines.transitions[k][3]])]
        raises ==
            \* TypeError on a base value, KeyError on an unknown id
            \/ base_raises
            \/ acc.raised
            \/ ~(used_ids \subseteq DOMAIN state_dict)
            \/ ~(used_actions \subseteq 0..(Len(alphabet_dict) - 1))
            \* a state left in top_states from a lower level is in no
            \* observation, which fails the validation
            \/ \E l \in 1..(Len(tops) - 1) : tops[l] # {}
            \/ Alphabet_raises(alphabet)
            \/ validate_raises(states, alphabet, transitions, state_groupings)
    IN IF raises THEN [raised |-> TRUE, value |-> NoParse]
       ELSE [raised |-> FALSE,
             value |-> MultiplayerGame(states, state_dict[lines.initial_state],
                                       Alphabet(alphabet), transitions,
                                       SeqMap(Partitioning, state_groupings),
                                       FALSE)]

(* --------------------------- tests/data.py ----------------------------- *)

\* the base states of the test games
Atoms == {0, 1, 2}

wagon ==
    create({0, 1, 2}, 0,
        << <<"wait", "push">>, <<"wait", "push">> >>,
        << <<0, <<"push", "push">>, 0>>, <<0, <<"wait", "wait">>, 0>>,
           <<0, <<"wait", "push">>, 1>>, <<0, <<"push", "wait">>, 2>>,
           <<1, <<"push", "push">>, 1>>, <<1, <<"wait", "wait">>, 1>>,
           <<1, <<"wait", "push">>, 2>>, <<1, <<"push", "wait">>, 0>>,
           <<2, <<"push", "push">>, 2>>, <<2, <<"wait", "wait">>, 2>>,
           <<2, <<"wait", "push">>, 0>>, <<2, <<"push", "wait">>, 1>> >>,
        << << <<0, 1>>, <<2>> >>, << <<0, 2>>, <<1>> >> >>)

wagon_projected_0 ==
    create({0, 1, 2}, 0,
        << <<"wait", "push">> >>,
        << <<0, <<"wait">>, 0>>, <<0, <<"wait">>, 1>>,
           <<0, <<"push">>, 0>>, <<0, <<"push">>, 2>>,
           <<1, <<"wait">>, 1>>, <<1, <<"wait">>, 2>>,
           <<1, <<"push">>, 1>>, <<1, <<"push">>, 0>>,
           <<2, <<"wait">>, 2>>, <<2, <<"wait">>, 0>>,
           <<2, <<"push">>, 2>>, <<2, <<"push">>, 1>> >>,
        << << <<0, 1>>, <<2>> >> >>)

\* _frozen(sets): every element becomes the frozenset of its members
_frozen(sets) == [k \in 1..Len(sets) |-> Range(sets[k])]

\* the knowledge pairs that wagon_kbsc lists
wagon_kbsc_pairs ==
    << <<{0}, {0}>>, <<{1}, {1}>>, <<{2}, {2}>>,
       <<{0}, {0, 2}>>, <<{2}, {0, 2}>>, <<{0, 1}, {0}>>,
       <<{0, 1}, {1}>>, <<{0, 1}, {0, 2}>> >>

\* the transitions that wagon_kbsc lists, by the position of their ends in
\* the list of states (counted from 1)
wagon_kbsc_transitions ==
    << <<1, <<"wait", "wait">>, 8>>, <<1, <<"wait", "push">>, 7>>,
       <<1, <<"push", "wait">>, 5>>, <<1, <<"push", "push">>, 1>>,
       <<2, <<"wait", "wait">>, 2>>, <<2, <<"wait", "push">>, 3>>,
       <<2, <<"push", "wait">>, 6>>, <<2, <<"push", "push">>, 7>>,
       <<3, <<"wait", "wait">>, 3>>, <<3, <<"wait", "push">>, 4>>,
       <<3, <<"push", "wait">>, 2>>, <<3, <<"push", "push">>, 5>>,
       <<4, <<"wait", "wait">>, 8>>, <<4, <<"wait", "push">>, 7>>,
       <<4, <<"push", "wait">>, 5>>, <<4, <<"push", "push">>, 4>>,
       <<5, <<"wait", "wait">>, 5>>, <<5, <<"wait", "push">>, 4>>,
       <<5, <<"push", "wait">>, 2>>, <<5, <<"push", "push">>, 5>>,
       <<6, <<"wait", "wait">>, 8>>, <<6, <<"wait", "push">>, 7>>,
       <<6, <<"push", "wait">>, 5>>, <<6, <<"push", "push">>, 6>>,
       <<7, <<"wait", "wait">>, 7>>, <<7, <<"wait", "push">>, 3>>,
       <<7, <<"push", "wait">>, 6>>, <<7, <<"push", "push">>, 7>>,
       <<8, <<"wait", "wait">>, 8>>, <<8, <<"wait", "push">>, 7>>,
       <<8, <<"push", "wait">>, 5>>, <<8, <<"push", "push">>, 8>> >>

\* the observations that wagon_kbsc lists, by position (counted from 1)
wagon_kbsc_observations ==
    << << <<1, 4>>, <<2>>, <<3, 5>>, <<6, 7, 8>> >>,
       << <<1, 6>>, <<2, 7>>, <<3>>, <<4, 5, 8>> >> >>

wagon_kbsc ==
    LET sts == _frozen(wagon_kbsc_pairs)
    IN create(Range(sts), sts[1],
           << <<"wait", "push">>, <<"wait", "push">> >>,
           SeqMap(LAMBDA t : <<sts[t[1]], t[2], sts[t[3]]>>,
                  wagon_kbsc_transitions),
           SeqMap(LAMBDA grouping :
                      SeqMap(LAMBDA group : SeqMap(LAMBDA k : sts[k], group),
                             grouping),
                  wagon_kbsc_observations))

magiian22 ==
    create({0, 1, 2}, 1,
        << <<"a">>, <<"a">> >>,
        << <<0, <<"a", "a">>, 1>>, <<0, <<"a", "a">>, 2>>,
           <<1, <<"a", "a">>, 0>>, <<1, <<"a", "a">>, 2>>,
           <<2, <<"a", "a">>, 0>>, <<2, <<"a", "a">>, 1>> >>,
        << << <<0, 1>>, <<2>> >>, << <<0, 2>>, <<1>> >> >>)

(* ------------------------- generated base games ------------------------ *)

\* the alphabet of the generated two-player games
GenAlphabet == << <<"a">>, <<"b", "c">> >>

\* every way to group a set into pairwise disjoint non-empty observations
Groupings(S) ==
    LET parts == {P \in SUBSET (SUBSET S \ {{}}) :
                     /\ UNION P = S
                     /\ \A a, b \in P : a # b => a \cap b = {}}
    IN {SeqMap(SetToSeq, SetToSeq(P)) : P \in parts}

\* the subsets of S with at most k elements
RECURSIVE SubsetsUpTo(_, _)
SubsetsUpTo(S, k) ==
    IF k = 0 THEN {{}}
    ELSE LET prev == SubsetsUpTo(S, k - 1)
         IN prev \cup {T \cup {x} : T \in prev, x \in S}

GenEdges == Atoms \X Range(permute(GenAlphabet)) \X Atoms

\* the generated base games; atom names are interchangeable, so their
\* initial state is atom 0 without loss of generality
GeneratedGames ==
    {create(Atoms, 0, GenAlphabet, SetToSeq(edges), <<g0, g1>>) :
        edges \in SubsetsUpTo(GenEdges, MaxTrans),
        g0 \in Groupings(Atoms),
        g1 \in Groupings(Atoms)}

BaseGames == {wagon, wagon_projected_0, magiian22} \cup GeneratedGames

(* ---------------------------- the program ------------------------------ *)

VARIABLES
    G,            \* the game KBSC is called on (self)
    pc,           \* where the call of KBSC stands
    P,            \* the single-player game whose KBSC loop runs
    games,        \* _synchronous_product's argument: the finished
                  \* single-player KBSC games, one per player so far
    initial,      \* the local initial_state(s) of the running loop
    states,       \* the local dict `states` of the running loop
    queue,        \* the local deque `queue` (index 1 is its left end)
    tested,       \* the local set `tested`
    transitions,  \* the local list `transitions`
    K,            \* the game KBSC returns
    limit,        \* iterate_until_isomorphic's argument `limit`
    iteration,    \* iterate_until_isomorphic's local `i`
    last_iso,     \* iterate_until_isomorphic's local `last_iso`
    log,          \* iterate_until_isomorphic's local `log`
    arg,          \* the arguments of the function that was called
    ret           \* what that function returned

\* the locals of iterate_until_isomorphic
driver == <<limit, iteration, last_iso, log>>

\* the arguments and the return value of the function that was called
call == <<arg, ret>>

vars == <<G, pc, P, games, initial, states, queue, tested, transitions, K, driver, call>>

\* stands for a game that does not exist yet
NoGame == MultiplayerGame({}, <<>>, <<>>, <<>>, <<>>, FALSE)

Init ==
    /\ G \in BaseGames
    /\ pc = "KBSC"
    /\ P = NoGame
    /\ games = <<>>
    /\ initial = <<>>
    /\ states = <<>>
    /\ queue = <<>>
    /\ tested = {}
    /\ transitions = <<>>
    /\ K = NoGame
    /\ limit = 0
    /\ iteration = 0
    /\ last_iso = 0
    /\ log = <<>>
    /\ arg = <<>>
    /\ ret = <<>>

\* project that turns the game itself into its projection
Project_in_place ==
    /\ pc = "KBSC"
    /\ G.player_count > 1
    /\ G' = project(G, Len(games) + 1)
    /\ P' = G'
    /\ pc' = "single"
    /\ UNCHANGED <<games, initial, states, queue, tested, transitions, K>>
    /\ UNCHANGED <<driver, call>>

\* KBSC, multiplayer branch: self.project(player) for the next player
Project ==
    /\ pc = "KBSC"
    /\ G.player_count > 1
    /\ P' = project(G, Len(games) + 1)
    /\ pc' = "single"
    /\ UNCHANGED <<G, games, initial, states, queue, tested, transitions, K>>
    /\ UNCHANGED <<driver, call>>

\* KBSC called on a game of one player
Single ==
    /\ pc = "KBSC"
    /\ G.player_count = 1
    /\ P' = G
    /\ pc' = "single"
    /\ UNCHANGED <<G, games, initial, states, queue, tested, transitions, K>>
    /\ UNCHANGED <<driver, call>>

\* KBSC, single-player branch: the locals before the while loop
KBSCInit ==
    /\ pc = "single"
    /\ LET initial_state == State(<<{P.initial_state}>>) IN
       /\ initial' = initial_state
       /\ states' = (getitem(initial_state, 1) :> initial_state)
       /\ queue' = <<initial_state>>
    /\ transitions' = <<>>
    /\ tested' = {}
    /\ pc' = "single_loop"
    /\ UNCHANGED <<G, P, games, K>>
    /\ UNCHANGED <<driver, call>>

\* KBSC, single-player branch: one turn of the while loop
KBSCStep ==
    /\ pc = "single_loop"
    /\ queue # <<>>
    /\ LET fromstate == queue[Len(queue)]
           rest      == SubSeq(queue, 1, Len(queue) - 1)
       IN IF fromstate \in tested
          THEN /\ queue' = rest
               /\ UNCHANGED <<states, tested, transitions>>
          ELSE LET acc == kbsc_visit(P, fromstate, kbsc_pairs(P),
                              [states |-> states, queue |-> rest,
                               transitions |-> transitions])
               IN /\ tested' = tested \cup {fromstate}
                  /\ states' = acc.states
                  /\ queue' = acc.queue
                  /\ transitions' = acc.transitions
    /\ UNCHANGED <<G, pc, P, games, initial, K>>
    /\ UNCHANGED <<driver, call>>

\* KBSC, single-player branch: the loop has ended and the game is returned,
\* to the caller of KBSC or into the list `games` of the multiplayer branch
KBSCReturn ==
    /\ pc = "single_loop"
    /\ queue = <<>>
    /\ LET game == kbsc_result(P, initial, states, transitions) IN
       IF G.player_count > 1
       THEN /\ games' = Append(games, game)
            /\ pc' = IF Len(games) + 1 < G.player_count
                     THEN "KBSC" ELSE "product"
            /\ K' = K
       ELSE /\ K' = game
            /\ pc' = "done"
            /\ games' = games
    /\ UNCHANGED <<G, P, initial, states, queue, tested, transitions>>
    /\ UNCHANGED <<driver, call>>

\* _synchronous_product: the locals before the while loop
ProductInit ==
    /\ pc = "product"
    /\ LET initial_states     == SeqMap(LAMBDA game : game.initial_state, games)
           initial_knowledges == SeqMap(LAMBDA st : st[1], initial_states)
       IN /\ initial' = initial_knowledges
          /\ states' = (initial_knowledges :> State(initial_knowledges))
          /\ queue' = << <<initial_states, consistent(initial_states)>> >>
    /\ transitions' = <<>>
    /\ tested' = {}
    /\ pc' = "product_loop"
    /\ UNCHANGED <<G, P, games, K>>
    /\ UNCHANGED <<driver, call>>

\* _synchronous_product: one turn of the while loop that never records the
\* tuple it expands in tested
ProductStep_untested ==
    /\ pc = "product_loop"
    /\ queue # <<>>
    /\ LET state_tuple == queue[Len(queue)][1]
           possible    == queue[Len(queue)][2]
           rest        == SubSeq(queue, 1, Len(queue) - 1)
           acc == product_visit(state_tuple,
                      product_pairs(G, games, state_tuple, possible,
                                    permute(G.alphabet)),
                      [states |-> states, queue |-> rest,
                       transitions |-> transitions])
       IN /\ tested' = tested
          /\ states' = acc.states
          /\ queue' = acc.queue
          /\ transitions' = acc.transitions
    /\ UNCHANGED <<G, pc, P, games, initial, K>>
    /\ UNCHANGED <<driver, call>>

\* _synchronous_product: one turn of the while loop
ProductStep ==
    /\ pc = "product_loop"
    /\ queue # <<>>
    /\ LET state_tuple == queue[Len(queue)][1]
           possible    == queue[Len(queue)][2]
           rest        == SubSeq(queue, 1, Len(queue) - 1)
       IN IF state_tuple \in tested
          THEN /\ queue' = rest
               /\ UNCHANGED <<states, tested, transitions>>
          ELSE LET acc == product_visit(state_tuple,
                              product_pairs(G, games, state_tuple, possible,
                                            permute(G.alphabet)),
                              [states |-> states, queue |-> rest,
                               transitions |-> transitions])
               IN /\ tested' = tested \cup {state_tuple}
                  /\ states' = acc.states
                  /\ queue' = acc.queue
                  /\ transitions' = acc.transitions
    /\ UNCHANGED <<G, pc, P, games, initial, K>>
    /\ UNCHANGED <<driver, call>>

\* _synchronous_product: the loop has ended and the game is returned
ProductReturn ==
    /\ pc = "product_loop"
    /\ queue = <<>>
    /\ K' = product_result(G, states[initial], states, transitions)
    /\ pc' = "done"
    /\ UNCHANGED <<G, P, games, initial, states, queue, tested, transitions>>
    /\ UNCHANGED <<driver, call>>

Next ==
    \/ Project
    \/ Single
    \/ KBSCInit
    \/ KBSCStep
    \/ KBSCReturn
    \/ ProductInit
    \/ ProductStep
    \/ ProductReturn

Spec == Init /\ [][Next]_vars


(* -------------- helper_functions.py: iterate_until_isomorphic ---------- *)

\* the most iterations of the loop that are followed
MaxIterations == 4

\* the values of the argument `limit`; -1 removes the limit
Limits == {-1} \cup (0..MaxIterations)

\* the grouping of every state into an observation of its own
Discrete(S) == SeqMap(LAMBDA x : <<x>>, SetToSeq(S))

\* the generated games over the given atoms whose second player tells all
\* states apart
GamesOver(atoms) ==
    {create(atoms, 0, GenAlphabet, SetToSeq(edges),
            <<g0, Discrete(atoms)>>) :
        edges \in SubsetsUpTo(atoms \X Range(permute(GenAlphabet)) \X atoms,
                              MaxTrans),
        g0 \in Groupings(atoms)}

\* the games iterate_until_isomorphic is called on
IterateGames == {wagon, wagon_projected_0, magiian22} \cup GamesOver(Atoms)

\* the local function p with verbose=True: the log entry "G<index>K:
\* <size> nodes" with its suffix for iso = 1 and iso = 2
p(index, size, iso) == [index |-> index, size |-> size, iso |-> iso]

\* iterate_until_isomorphic(G, limit): the locals before the while loop
IterateInit ==
    /\ G \in IterateGames
    /\ limit \in Limits
    /\ iteration = 0
    /\ last_iso = 0
    /\ log = <<p(0, Cardinality(G.states), 0)>>
    /\ pc = "while"
    /\ P = NoGame
    /\ games = <<>>
    /\ initial = <<>>
    /\ states = <<>>
    /\ queue = <<>>
    /\ tested = {}
    /\ transitions = <<>>
    /\ K = NoGame
    /\ arg = [G |-> G]
    /\ ret = <<>>

\* the call of KBSC with the while condition i <= limit
CallKBSC_one_more ==
    /\ pc = "while"
    /\ limit = -1 \/ iteration <= limit
    /\ iteration < MaxIterations
    /\ pc' = "KBSC"
    /\ P' = NoGame
    /\ games' = <<>>
    /\ initial' = <<>>
    /\ states' = <<>>
    /\ queue' = <<>>
    /\ tested' = {}
    /\ transitions' = <<>>
    /\ UNCHANGED <<G, K, driver, call>>

\* the while condition holds: current.KBSC() is called
CallKBSC ==
    /\ pc = "while"
    /\ limit = -1 \/ iteration < limit
    /\ iteration < MaxIterations
    /\ pc' = "KBSC"
    /\ P' = NoGame
    /\ games' = <<>>
    /\ initial' = <<>>
    /\ states' = <<>>
    /\ queue' = <<>>
    /\ tested' = {}
    /\ transitions' = <<>>
    /\ UNCHANGED <<G, K, driver, call>>

\* the loop body after KBSC with a break on every isomorphic pair
Classify_break_on_structure ==
    /\ pc = "done"
    /\ iteration' = iteration + 1
    /\ IF /\ Cardinality(G.states) = Cardinality(K.states)
          /\ isomorphic(G, K, FALSE)
       THEN /\ last_iso' = IF isomorphic(G, K, TRUE) THEN 2 ELSE 1
            /\ log' = Append(log, p(iteration', Cardinality(K.states),
                                    last_iso'))
            /\ pc' = "return"
            /\ G' = G
       ELSE /\ last_iso' = 0
            /\ log' = Append(log, p(iteration', Cardinality(K.states), 0))
            /\ pc' = "while"
            /\ G' = K
    /\ UNCHANGED <<P, games, initial, states, queue, tested, transitions, K>>
    /\ UNCHANGED <<limit, call>>

\* the loop body after KBSC with both comparisons made without observations
Classify_ignore_observations ==
    /\ pc = "done"
    /\ iteration' = iteration + 1
    /\ IF /\ Cardinality(G.states) = Cardinality(K.states)
          /\ isomorphic(G, K, FALSE)
       THEN /\ last_iso' = 2
            /\ log' = Append(log, p(iteration', Cardinality(K.states), 2))
            /\ pc' = "return"
            /\ G' = G
       ELSE /\ last_iso' = 0
            /\ log' = Append(log, p(iteration', Cardinality(K.states), 0))
            /\ pc' = "while"
            /\ G' = K
    /\ UNCHANGED <<P, games, initial, states, queue, tested, transitions, K>>
    /\ UNCHANGED <<limit, call>>

\* the loop body after KBSC that never finds the observations preserved
Classify_never_stable ==
    /\ pc = "done"
    /\ iteration' = iteration + 1
    /\ IF /\ Cardinality(G.states) = Cardinality(K.states)
          /\ isomorphic(G, K, FALSE)
       THEN /\ last_iso' = 1
            /\ log' = Append(log, p(iteration', Cardinality(K.states), 1))
       ELSE /\ last_iso' = 0
            /\ log' = Append(log, p(iteration', Cardinality(K.states), 0))
    /\ pc' = "while"
    /\ G' = K
    /\ UNCHANGED <<P, games, initial, states, queue, tested, transitions, K>>
    /\ UNCHANGED <<limit, call>>

\* the loop body after currentK = current.KBSC(): i += 1, the comparison of
\* current with currentK, the log entry, and break or current = currentK
Classify ==
    /\ pc = "done"
    /\ iteration' = iteration + 1
    /\ IF /\ Cardinality(G.states) = Cardinality(K.states)
          /\ isomorphic(G, K, FALSE)
       THEN IF isomorphic(G, K, TRUE)
            THEN /\ last_iso' = 2
                 /\ log' = Append(log, p(iteration', Cardinality(K.states), 2))
                 /\ pc' = "return"
                 /\ G' = G
            ELSE /\ last_iso' = 1
                 /\ log' = Append(log, p(iteration', Cardinality(K.states), 1))
                 /\ pc' = "while"
                 /\ G' = K
       ELSE /\ last_iso' = 0
            /\ log' = Append(log, p(iteration', Cardinality(K.states), 0))
            /\ pc' = "while"
            /\ G' = K
    /\ UNCHANGED <<P, games, initial, states, queue, tested, transitions, K>>
    /\ UNCHANGED <<limit, call>>

\* the while condition fails: return log, current, last_iso
Return ==
    /\ pc = "while"
    /\ ~(limit = -1 \/ iteration < limit)
    /\ pc' = "return"
    /\ UNCHANGED <<G, P, games, initial, states, queue, tested, transitions, K>>
    /\ UNCHANGED <<limit, iteration, last_iso, log, call>>

IterateNext ==
    \/ CallKBSC
    \/ Project
    \/ Single
    \/ KBSCInit
    \/ KBSCStep
    \/ KBSCReturn
    \/ ProductInit
    \/ ProductStep
    \/ ProductReturn
    \/ Classify
    \/ Return

SpecIterate == IterateInit /\ [][IterateNext]_vars

(* ------------------- isomorphic called on two games -------------------- *)

\* the most transitions of a game compared without observations
MaxIsoTrans == 2

\* the most transitions of a game compared with observations
MaxIsoObsTrans == 1

\* the games compared without observations, which the comparison does not
\* read the groupings of: two or three states and every choice of
\* transitions
IsoStructures ==
    {create(content, 0, GenAlphabet, SetToSeq(edges),
            <<Discrete(content), Discrete(content)>>) :
        edges \in SubsetsUpTo(GenEdges, MaxIsoTrans),
        content \in {{0, 1}, Atoms}}
    \ {create({0, 1}, 0, GenAlphabet, SetToSeq(edges),
              <<Discrete({0, 1}), Discrete({0, 1})>>) :
        edges \in {es \in SubsetsUpTo(GenEdges, MaxIsoTrans) :
                      \E e \in es : e[1] = 2 \/ e[3] = 2}}

\* the games compared with observations: every choice of groupings
IsoObsGames ==
    {create(Atoms, 0, GenAlphabet, SetToSeq(edges), <<g0, g1>>) :
        edges \in SubsetsUpTo(GenEdges, MaxIsoObsTrans),
        g0 \in Groupings(Atoms),
        g1 \in Groupings(Atoms)}

\* the arguments of the calls of isomorphic
IsoArgs ==
    [self : IsoStructures, other : IsoStructures,
     consider_observations : {FALSE}]
    \cup [self : IsoObsGames, other : IsoObsGames,
          consider_observations : {TRUE}]

IsoInit ==
    /\ pc = "isomorphic"
    /\ arg \in IsoArgs
    /\ ret = <<>>
    /\ G = NoGame
    /\ P = NoGame
    /\ games = <<>>
    /\ initial = <<>>
    /\ states = <<>>
    /\ queue = <<>>
    /\ tested = {}
    /\ transitions = <<>>
    /\ K = NoGame
    /\ limit = 0
    /\ iteration = 0
    /\ last_iso = 0
    /\ log = <<>>

\* self.isomorphic(other, consider_observations) returns
Isomorphic ==
    /\ pc = "isomorphic"
    /\ ret' = isomorphic(arg.self, arg.other, arg.consider_observations)
    /\ pc' = "isomorphic_done"
    /\ UNCHANGED <<G, P, games, initial, states, queue, tested, transitions, K>>
    /\ UNCHANGED <<driver, arg>>

SpecIsomorphic == IsoInit /\ [][Isomorphic]_vars

(* --------------------- create called on raw input ---------------------- *)

\* the most atoms one grouping lists
MaxGrouped == 3

\* the most actions of one player's alphabet
MaxActions == 2

\* the most transition edges
MaxEdges == 1

\* the sequences over S of length 1 to n
RECURSIVE SeqsUpTo(_, _)
SeqsUpTo(S, n) ==
    IF n = 0 THEN {}
    ELSE SeqsUpTo(S, n - 1) \cup [1..n -> S]

\* the groupings of at most two groups that list at most n atoms of S
GroupingInputs(S, n) ==
    {<<g>> : g \in SeqsUpTo(S, n)}
    \cup {gh \in SeqsUpTo(S, n - 1) \X SeqsUpTo(S, n - 1) :
              Len(gh[1]) + Len(gh[2]) <= n}

\* the states of the games that are created
CreateContent == {0, 1}

\* the arguments of create: the states are 0 and 1, and atom 2 is no
\* state; the first player's alphabet and grouping are drawn from the
\* larger sets
CreateArgs ==
    [content : {CreateContent},
     initial : {0, 2},
     alphabet : {<<p1, <<"b">>>> : p1 \in SeqsUpTo({"a", "b"}, MaxActions)},
     transition_edges :
         SeqsUpTo({0, 2} \X ({"a", "b"} \X {"a", "b"}) \X {0, 2}, MaxEdges)
         \cup {<<>>},
     state_groupings :
         {<<g1, g2>> : g1 \in GroupingInputs(Atoms, MaxGrouped),
                       g2 \in GroupingInputs(CreateContent, MaxGrouped - 1)}]

CreateInit ==
    /\ pc = "create"
    /\ arg \in CreateArgs
    /\ ret = <<>>
    /\ G = NoGame
    /\ P = NoGame
    /\ games = <<>>
    /\ initial = <<>>
    /\ states = <<>>
    /\ queue = <<>>
    /\ tested = {}
    /\ transitions = <<>>
    /\ K = NoGame
    /\ limit = 0
    /\ iteration = 0
    /\ last_iso = 0
    /\ log = <<>>

\* MultiplayerGame.create(content, initial, alphabet, transition_edges,
\* state_groupings) returns a game or raises
Create ==
    /\ pc = "create"
    /\ ret' = IF create_raises(arg.content, arg.initial, arg.alphabet,
                               arg.transition_edges, arg.state_groupings)
              THEN [raised |-> TRUE, value |-> NoGame]
              ELSE [raised |-> FALSE,
                    value |-> create(arg.content, arg.initial, arg.alphabet,
                                     arg.transition_edges,
                                     arg.state_groupings)]
    /\ pc' = "create_done"
    /\ UNCHANGED <<G, P, games, initial, states, queue, tested, transitions, K>>
    /\ UNCHANGED <<driver, arg>>

\* Alphabet(*alphabet) returns an alphabet or raises
NewAlphabet ==
    /\ pc = "create"
    /\ ret' = IF Alphabet_raises(arg.alphabet)
              THEN [raised |-> TRUE, value |-> <<>>]
              ELSE [raised |-> FALSE, value |-> Alphabet(arg.alphabet)]
    /\ pc' = "alphabet_done"
    /\ UNCHANGED <<G, P, games, initial, states, queue, tested, transitions, K>>
    /\ UNCHANGED <<driver, arg>>

CreateNext == Create \/ NewAlphabet

SpecCreate == CreateInit /\ [][CreateNext]_vars

(* ------------------- permute called on an alphabet --------------------- *)

\* the most players of an alphabet
MaxPlayers == 3

\* the actions the alphabets are made of
PermuteActions == {"a", "b", "c"}

\* the possible actions of one player: no action, or up to MaxActions
\* different ones in any order
PlayerActions ==
    {<<>>} \cup {acts \in SeqsUpTo(PermuteActions, MaxActions) :
                    Cardinality(Range(acts)) = Len(acts)}

PermuteInit ==
    /\ pc = "permute"
    /\ arg \in {Alphabet(actions) : actions \in SeqsUpTo(PlayerActions, MaxPlayers)}
    /\ ret = <<>>
    /\ G = NoGame
    /\ P = NoGame
    /\ games = <<>>
    /\ initial = <<>>
    /\ states = <<>>
    /\ queue = <<>>
    /\ tested = {}
    /\ transitions = <<>>
    /\ K = NoGame
    /\ limit = 0
    /\ iteration = 0
    /\ last_iso = 0
    /\ log = <<>>

\* the generator alphabet.permute() is run to its end
Permute ==
    /\ pc = "permute"
    /\ ret' = permute(arg)
    /\ pc' = "permute_done"
    /\ UNCHANGED <<G, P, games, initial, states, queue, tested, transitions, K>>
    /\ UNCHANGED <<driver, arg>>

SpecPermute == PermuteInit /\ [][Permute]_vars

(* ------------- to_string and from_string called on a game -------------- *)

\* the most applications of KBSC behind a serialized game
MaxDepth == 2

\* KBSC applied n times to a game
RECURSIVE Iterate(_, _)
Iterate(game, n) == IF n = 0 THEN game ELSE Iterate(KBSC(game), n - 1)

\* atoms with a negative integer among them
SignedAtoms == {-1, 0, 1}

\* the base games behind the serialized games
SerializeGames ==
    {wagon, wagon_projected_0, magiian22}
    \cup GamesOver(Atoms) \cup GamesOver(SignedAtoms)

SerializeInit ==
    /\ pc = "to_string"
    /\ \E depth \in 0..MaxDepth :
           arg \in {[game |-> Iterate(game, depth), depth |-> depth] :
                       game \in SerializeGames}
    /\ ret = <<>>
    /\ G = NoGame
    /\ P = NoGame
    /\ games = <<>>
    /\ initial = <<>>
    /\ states = <<>>
    /\ queue = <<>>
    /\ tested = {}
    /\ transitions = <<>>
    /\ K = NoGame
    /\ limit = 0
    /\ iteration = 0
    /\ last_iso = 0
    /\ log = <<>>

\* to_string(game) returns the text
to_string ==
    /\ pc = "to_string"
    /\ ret' = [string |-> _serialize(arg.game, arg.depth)]
    /\ pc' = "from_string"
    /\ UNCHANGED <<G, P, games, initial, states, queue, tested, transitions, K>>
    /\ UNCHANGED <<driver, arg>>

\* from_string(text) returns a game or raises
from_string ==
    /\ pc = "from_string"
    /\ ret' = [string |-> ret.string, parsed |-> _parse(ret.string)]
    /\ pc' = "parsed"
    /\ UNCHANGED <<G, P, games, initial, states, queue, tested, transitions, K>>
    /\ UNCHANGED <<driver, arg>>

SerializeNext == to_string \/ from_string

SpecSerialize == SerializeInit /\ [][SerializeNext]_vars

(* ------------- consistent_base called on a state of a game ------------- *)

\* the base games behind the games whose states are asked for their base:
\* the test games, the generated games and their projections to player 1
ConsistentGames ==
    {wagon, wagon_projected_0, magiian22}
    \cup GamesOver(Atoms) \cup {project(game, 1) : game \in GamesOver(Atoms)}

ConsistentInit ==
    /\ pc = "iterate"
    /\ \E depth \in 1..MaxDepth : \E game \in ConsistentGames :
           arg = [game |-> game, depth |-> depth]
    /\ ret = <<>>
    /\ G = NoGame
    /\ P = NoGame
    /\ games = <<>>
    /\ initial = <<>>
    /\ states = <<>>
    /\ queue = <<>>
    /\ tested = {}
    /\ transitions = <<>>
    /\ K = NoGame
    /\ limit = 0
    /\ iteration = 0
    /\ last_iso = 0
    /\ log = <<>>

\* KBSC is applied depth times to the base game
IterateKBSC ==
    /\ pc = "iterate"
    /\ K' = Iterate(arg.game, arg.depth)
    /\ pc' = "consistent_base"
    /\ UNCHANGED <<G, P, games, initial, states, queue, tested, transitions>>
    /\ UNCHANGED <<driver, call>>

\* state.consistent_base() returns a set of states or raises, for a state
\* of the resulting game
ConsistentBase ==
    /\ pc = "consistent_base"
    /\ \E state \in K.states :
           ret' = [state |-> state,
                   result |-> consistent_base(state, arg.depth)]
    /\ pc' = "consistent_base_done"
    /\ UNCHANGED <<G, P, games, initial, states, queue, tested, transitions, K>>
    /\ UNCHANGED <<driver, arg>>

ConsistentNext == IterateKBSC \/ ConsistentBase

SpecConsistent == ConsistentInit /\ [][ConsistentNext]_vars

(* ------------- KBSC with its loops run in another order ---------------- *)

\* the most positions a sequence is rotated by
MaxRotate == 2

\* the orders a run may follow: which end of the worklist is taken, and the
\* rotation and direction in which the pairs of the inner loops are visited
Orders == [pop_left : BOOLEAN, reverse : BOOLEAN, rotate : 0..MaxRotate]

\* a sequence in the opposite direction
Reverse(s) == [k \in 1..Len(s) |-> s[Len(s) + 1 - k]]

\* a sequence with every element moved r places to the left
Rotate(s, r) == [k \in 1..Len(s) |-> s[((k - 1 + r) % Len(s)) + 1]]

\* a sequence in the order given
reorder(s, order) ==
    IF s = <<>> THEN s
    ELSE IF order.reverse THEN Reverse(Rotate(s, order.rotate))
         ELSE Rotate(s, order.rotate)

\* the position of the worklist entry taken, and the worklist without it
taken(q, order) == IF order.pop_left THEN 1 ELSE Len(q)

others(q, order) ==
    IF order.pop_left THEN Tail(q) ELSE SubSeq(q, 1, Len(q) - 1)

OrderInit ==
    /\ G \in ConsistentGames
    /\ arg \in Orders
    /\ pc = "KBSC"
    /\ P = NoGame
    /\ games = <<>>
    /\ initial = <<>>
    /\ states = <<>>
    /\ queue = <<>>
    /\ tested = {}
    /\ transitions = <<>>
    /\ K = NoGame
    /\ limit = 0
    /\ iteration = 0
    /\ last_iso = 0
    /\ log = <<>>
    /\ ret = <<>>

\* KBSC, single-player branch: one turn of the while loop in the order arg
OrderedKBSCStep ==
    /\ pc = "single_loop"
    /\ queue # <<>>
    /\ LET fromstate == queue[taken(queue, arg)]
           rest      == others(queue, arg)
       IN IF fromstate \in tested
          THEN /\ queue' = rest
               /\ UNCHANGED <<states, tested, transitions>>
          ELSE LET acc == kbsc_visit(P, fromstate, reorder(kbsc_pairs(P), arg),
                              [states |-> states, queue |-> rest,
                               transitions |-> transitions])
               IN /\ tested' = tested \cup {fromstate}
                  /\ states' = acc.states
                  /\ queue' = acc.queue
                  /\ transitions' = acc.transitions
    /\ UNCHANGED <<G, pc, P, games, initial, K>>
    /\ UNCHANGED <<driver, call>>

\* _synchronous_product: one turn of the while loop in the order arg
OrderedProductStep ==
    /\ pc = "product_loop"
    /\ queue # <<>>
    /\ LET state_tuple == queue[taken(queue, arg)][1]
           possible    == queue[taken(queue, arg)][2]
           rest        == others(queue, arg)
       IN IF state_tuple \in tested
          THEN /\ queue' = rest
               /\ UNCHANGED <<states, tested, transitions>>
          ELSE LET acc == product_visit(state_tuple,
                              reorder(product_pairs(G, games, state_tuple,
                                          possible, permute(G.alphabet)), arg),
                              [states |-> states, queue |-> rest,
                               transitions |-> transitions])
               IN /\ tested' = tested \cup {state_tuple}
                  /\ states' = acc.states
                  /\ queue' = acc.queue
                  /\ transitions' = acc.transitions
    /\ UNCHANGED <<G, pc, P, games, initial, K>>
    /\ UNCHANGED <<driver, call>>

OrderNext ==
    \/ Project
    \/ Single
    \/ KBSCInit
    \/ OrderedKBSCStep
    \/ KBSCReturn
    \/ ProductInit
    \/ OrderedProductStep
    \/ ProductReturn

SpecOrder == OrderInit /\ [][OrderNext]_vars

(* ------------------------------ claims --------------------------------- *)

\* the set of transitions of a game
TransitionSet(game) == Range(game.transitions)

\* post as the specification defines it, from the transition relation
PostT(game, joint_action, S) ==
    {t.end : t \in {u \in TransitionSet(game) :
                        u.start \in S /\ u.joint_action = joint_action}}

\* the call of KBSC on a game of several players has returned
MultiDone == pc = "done" /\ G.player_count > 1

\* a transition of the product has a witness transition in the base game
Witnessed(t) ==
    \E b \in TransitionSet(G) :
        /\ b.joint_action = t.joint_action
        /\ b.start \in Intersection(t.start)
        /\ b.end \in Intersection(t.end)

\* C1: every transition (Q, a, Q') of the game the multi-player KBSC returns
\* has a witness transition (s, a, s') of the base game with s in the
\* intersection of Q and s' in the intersection of Q'.
C1_EveryTransitionWitnessed ==
    MultiDone => \A t \in TransitionSet(K) : Witnessed(t)

\* the candidate tuples the product loop visits from product state Q
CandidatesFrom(Q) ==
    Range(product_pairs(G, games, SeqMap(LAMBDA q : State(<<q>>), Q),
                        Intersection(Q), permute(G.alphabet)))

\* C2: every state of the synchronous product, the initial state and every
\* transition endpoint included, has a non-empty intersection of its
\* components; this holds of the dict `states` throughout the loop and of
\* the returned game.
C2_StatesConsistent ==
    /\ pc = "product_loop" =>
          /\ \A k \in DOMAIN states : Intersection(k) # {}
          /\ \A t \in Range(transitions) :
                Intersection(t.start) # {} /\ Intersection(t.end) # {}
    /\ MultiDone =>
          /\ Intersection(K.initial_state) # {}
          /\ \A st \in K.states : Intersection(st) # {}
          /\ \A t \in TransitionSet(K) :
                Intersection(t.start) # {} /\ Intersection(t.end) # {}
          /\ K.graph.nodes = K.states

\* C2 witness: the product has returned and, from one of its states, the
\* loop met a candidate tuple with an empty intersection
C2_Witness ==
    /\ MultiDone
    /\ \E Q \in K.states : \E pr \in CandidatesFrom(Q) :
           consistent(pr[2]) = {}


\* what the specification requires of res = KBSC(src) for a game src of one
\* player
SingleKBSC(src, res) ==
    /\ res.initial_state = <<{src.initial_state}>>
    /\ res.initial_state \in res.states
    /\ \A q \in res.states : q[1] # {} /\ q[1] \subseteq src.states
    /\ \A t \in TransitionSet(res) :
          /\ t.start \in res.states
          /\ t.end \in res.states
          /\ Len(t.joint_action) = 1
    /\ \A q \in res.states : \A a \in Range(src.alphabet[1]) :
          \A k \in (SUBSET src.states) \ {{}} :
              Transition(q, <<a>>, <<k>>) \in TransitionSet(res)
                  <=> \E o \in Range(src.partitionings[1]) :
                          k = PostT(src, <<a>>, q[1]) \cap Range(o)

\* the four knowledge sets of tests/data.py wagon_projected_0_transformed
WagonProjected0States ==
    {<<{<<0>>}>>, <<{<<1>>}>>, <<{<<2>>}>>, <<{<<0>>, <<1>>}>>}

\* C3: the single-player KBSC starts in {s0} and has a transition
\* (q, (a,), k), k non-empty, exactly when k is post(a, q) cut with one
\* observation; an empty cut gives no state and no transition.  On the
\* wagon game projected to player 0 the states are {0}, {1}, {2}, {0,1}.
C3_SingleKBSC ==
    /\ \A i \in 1..Len(games) : SingleKBSC(project(G, i), games[i])
    /\ (pc = "done" /\ G.player_count = 1) => SingleKBSC(G, K)
    /\ (G = wagon /\ Len(games) >= 1) =>
           games[1].states = WagonProjected0States
    /\ (G = wagon_projected_0 /\ pc = "done") =>
           K.states = WagonProjected0States

\* C3 witness: KBSC has returned on the projected wagon game, where some
\* post set misses an observation
C3_Witness ==
    /\ G = wagon_projected_0
    /\ pc = "done"
    /\ Cardinality(K.states) = 4
    /\ \E q \in K.states : \E a \in Range(G.alphabet[1]) :
           \E o \in Range(G.partitionings[1]) :
               PostT(G, <<a>>, q[1]) \cap Range(o) = {}


\* the observations of one partitioning are pairwise disjoint and cover sts
IsPartition(partitioning, sts) ==
    /\ \A i, j \in 1..Len(partitioning) :
          i # j => Range(partitioning[i]) \cap Range(partitioning[j]) = {}
    /\ UNION {Range(partitioning[i]) : i \in 1..Len(partitioning)} = sts

PartitionSound(game) ==
    /\ Len(game.partitionings) = game.player_count
    /\ \A i \in 1..game.player_count :
          IsPartition(game.partitionings[i], game.states)

\* C4: in every game project, single-player KBSC or multi-player KBSC
\* produces, every player's observations are pairwise disjoint and their
\* union is the game's state set.
C4_PartitionSound ==
    /\ PartitionSound(P)
    /\ \A i \in 1..Len(games) : PartitionSound(games[i])
    /\ pc = "done" => PartitionSound(K)

\* C4 witness: a product game has been returned in which a player has
\* several observations, one of them with several states
C4_Witness ==
    /\ MultiDone
    /\ PartitionSound(P)
    /\ \E i \in 1..K.player_count :
          /\ Len(K.partitionings[i]) >= 2
          /\ \E o \in Range(K.partitionings[i]) : Len(o) >= 2

WellFormed(game) ==
    \A t \in TransitionSet(game) :
        /\ t.start \in game.states
        /\ t.end \in game.states
        /\ Len(t.joint_action) = game.player_count
        /\ Len(game.alphabet) = game.player_count
        /\ \A i \in 1..game.player_count :
              t.joint_action[i] \in Range(game.alphabet[i])

\* C5: in every game project or KBSC produces, every transition starts and
\* ends in the game's state set and its joint action has one component per
\* player, each a member of that player's alphabet.
C5_TransitionsWellFormed ==
    /\ WellFormed(P)
    /\ \A i \in 1..Len(games) : WellFormed(games[i])
    /\ pc = "done" => WellFormed(K)

\* C5 witness: a product game with several transitions has been returned
\* for players with different alphabets
C5_Witness ==
    /\ MultiDone
    /\ G.alphabet[1] # G.alphabet[2]
    /\ Len(K.transitions) >= 2
    /\ Len(P.transitions) >= 2

\* the states reachable from `seen` along the game's transitions
RECURSIVE ReachFrom(_, _)
ReachFrom(game, seen) ==
    LET next == seen \cup {t.end : t \in {u \in TransitionSet(game) :
                                             u.start \in seen}}
    IN IF next = seen THEN seen ELSE ReachFrom(game, next)

AllReachable(game) ==
    game.states \subseteq ReachFrom(game, {game.initial_state})

\* C6: every state of a game KBSC returns, single-player or multi-player,
\* is reachable from the game's initial state along its own transitions.
C6_AllStatesReachable ==
    /\ \A i \in 1..Len(games) : AllReachable(games[i])
    /\ pc = "done" => AllReachable(K)

\* C6 witness: a product game of three or more states has been returned,
\* built from a single-player game of three or more states
C6_Witness ==
    /\ MultiDone
    /\ Cardinality(K.states) >= 3
    /\ \E i \in 1..Len(games) : Cardinality(games[i].states) >= 3


\* project has just returned P for the player numbered Len(games) + 1
Projected == pc = "single" /\ G.player_count > 1

\* the transition of G at position k, projected onto player i
ProjectedTransition(k, i) ==
    Transition(G.transitions[k].start,
               <<G.transitions[k].joint_action[i]>>,
               G.transitions[k].end)

\* two games with the same states, initial state, alphabet, transitions,
\* graph and observations: the identity is an isomorphism with observations
SameGame(a, b) ==
    /\ a.states = b.states
    /\ a.initial_state = b.initial_state
    /\ a.alphabet = b.alphabet
    /\ TransitionSet(a) = TransitionSet(b)
    /\ a.graph = b.graph
    /\ Len(a.partitionings) = Len(b.partitionings)
    /\ \A i \in 1..Len(a.partitionings) :
          {Range(o) : o \in Range(a.partitionings[i])}
              = {Range(o) : o \in Range(b.partitionings[i])}

\* C7: project(G, i) is a game of one player with the states and initial
\* state of G, the one partitioning of player i, the alphabet (Sigma_i,)
\* and exactly the transitions (s, (a_i,), s') for (s, a, s') in T; for the
\* wagon game and player 0 it is the expected game of 12 transitions with
\* partitioning {{0,1},{2}}.
C7_Projection ==
    /\ Projected =>
          LET i == Len(games) + 1 IN
          /\ P.player_count = 1
          /\ P.states = G.states
          /\ P.graph.nodes = G.states
          /\ P.initial_state = G.initial_state
          /\ P.partitionings = <<G.partitionings[i]>>
          /\ P.alphabet = <<G.alphabet[i]>>
          /\ TransitionSet(P) =
                 {ProjectedTransition(k, i) : k \in 1..Len(G.transitions)}
    /\ (Projected /\ G = wagon /\ games = <<>>) =>
          /\ SameGame(P, wagon_projected_0)
          /\ Cardinality(TransitionSet(P)) = 12
          /\ {Range(o) : o \in Range(P.partitionings[1])}
                 = {{<<0>>, <<1>>}, {<<2>>}}

\* C7 witness: the wagon game has just been projected onto player 0
C7_Witness ==
    /\ Projected
    /\ G = wagon
    /\ games = <<>>
    /\ Len(P.transitions) = 12

\* two transitions of G, at positions k and l, with the same endpoints that
\* differ only in components of players other than i
SameProjection(k, l, i) ==
    /\ k # l
    /\ G.transitions[k] # G.transitions[l]
    /\ ProjectedTransition(k, i) = ProjectedTransition(l, i)

\* C8 as stated: the projected game's graph has as many edges as G has
\* transitions, so transitions that project to the same triple stay two
\* parallel edges.
C8_ParallelEdgesKept ==
    Projected => Cardinality(P.graph.edges) = Len(G.transitions)

\* C8 amended: project keeps every projected transition in the projected
\* game's list of transitions, so that list is as long as G's, but the
\* graph, whose edges are keyed by the joint action, holds one edge for
\* each distinct projected triple (s, (a_i,), s'): transitions that differ
\* only in other players' components share one edge.
C8_TransitionsKeptEdgesMerged ==
    Projected =>
        LET i == Len(games) + 1 IN
        /\ Len(P.transitions) = Len(G.transitions)
        /\ \A k \in 1..Len(G.transitions) :
              P.transitions[k] = ProjectedTransition(k, i)
        /\ P.graph.edges =
               {<<ProjectedTransition(k, i).start, ProjectedTransition(k, i).end,
                  ProjectedTransition(k, i).joint_action>> :
                      k \in 1..Len(G.transitions)}
        /\ \A k, l \in 1..Len(G.transitions) :
              SameProjection(k, l, i) =>
                  Cardinality(P.graph.edges) < Len(G.transitions)

\* C8 witness: G has two transitions that project to the same triple
C8_Witness ==
    /\ Projected
    /\ \E k, l \in 1..Len(G.transitions) : SameProjection(k, l, Len(games) + 1)

\* post agrees with the specification's definition on every set of states,
\* with a scalar action for a game of one player
PostAgrees(game) ==
    IF game.player_count = 0 THEN TRUE
    ELSE IF game.player_count = 1
    THEN \A a \in Range(game.alphabet[1]) :
            /\ \A S \in SUBSET game.states :
                  post(game, a, S) = PostT(game, <<a>>, S)
            /\ \A st \in game.states :
                  post_state(game, a, st) = PostT(game, <<a>>, {st})
    ELSE \A ja \in Range(permute(game.alphabet)) :
            /\ \A S \in SUBSET game.states :
                  post(game, ja, S) = PostT(game, ja, S)
            /\ \A st \in game.states :
                  post_state(game, ja, st) = PostT(game, ja, {st})

\* C9: post(G, a, S) is the set of s' with (s, a, s') in T for some s in S;
\* a game of one player takes the action as a scalar and matches it against
\* the transitions labelled (a,); a single state stands for its singleton.
C9_Post ==
    /\ PostAgrees(G)
    /\ PostAgrees(P)
    /\ \A i \in 1..Len(games) : PostAgrees(games[i])
    /\ pc = "done" => PostAgrees(K)

\* C9 witness: the product loop runs over a single-player KBSC game in which
\* post of a set of two states is non-empty and smaller than the set of all
\* their successors
C9_Witness ==
    /\ pc = "product_loop"
    /\ \E a \in Range(games[1].alphabet[1]) :
          \E S \in SUBSET games[1].states :
              /\ Cardinality(S) = 2
              /\ post(games[1], a, S) # {}
              /\ post(games[1], a, S) #
                     UNION {neighbors(games[1].graph, st) : st \in S}

\* two states lie in one observation of the partitioning
SameObservation(partitioning, a, b) ==
    \E o \in Range(partitioning) : a \in Range(o) /\ b \in Range(o)

\* C10: in the game the multi-player KBSC returns, two product states lie
\* in the same observation of player i exactly when their i-th components
\* are equal.
C10_ObservationsByComponent ==
    MultiDone =>
        \A i \in 1..K.player_count : \A a, b \in K.states :
            SameObservation(K.partitionings[i], a, b) <=> a[i] = b[i]

\* C10 witness: the returned product has two distinct states with the same
\* second component and a third state with another one
C10_Witness ==
    /\ MultiDone
    /\ \E a, b, c \in K.states :
          /\ a # b
          /\ a[2] = b[2]
          /\ SameObservation(K.partitionings[2], a, b)
          /\ c[2] # a[2]
          /\ ~SameObservation(K.partitionings[2], a, c)

\* the one-to-one functions from S onto T
Bijections(S, T) ==
    IF Cardinality(S) # Cardinality(T) THEN {}
    ELSE {f \in [S -> T] : \A x, y \in S : x # y => f[x] # f[y]}

\* the set of joint actions labelling the transitions from u to v
JointActions(game, u, v) ==
    {t.joint_action : t \in {x \in TransitionSet(game) :
                                x.start = u /\ x.end = v}}

\* f maps the initial state to the initial state and keeps, for every pair
\* of states, the set of joint actions from the one to the other
LabelPreserving(a, b, f) ==
    /\ f[a.initial_state] = b.initial_state
    /\ \A u, v \in a.states :
          JointActions(a, u, v) = JointActions(b, f[u], f[v])

\* isomorphic has returned
IsoDone == pc = "isomorphic_done"

\* C11: isomorphic without observations returns true exactly when some
\* bijection between the two state sets maps the initial state to the
\* initial state and keeps, for all states u and v, the set of joint
\* actions labelling u -> v; it returns false when the state counts differ.
C11_Isomorphic ==
    (IsoDone /\ ~arg.consider_observations) =>
        /\ ret <=> \E f \in Bijections(arg.self.states, arg.other.states) :
                       LabelPreserving(arg.self, arg.other, f)
        /\ Cardinality(arg.self.states) # Cardinality(arg.other.states)
               => ret = FALSE

\* C11 witness: two different games were found isomorphic that have two
\* joint actions between one pair of states
C11_Witness ==
    /\ IsoDone
    /\ ~arg.consider_observations
    /\ ret
    /\ arg.self # arg.other
    /\ \E u, v \in arg.self.states :
           Cardinality(JointActions(arg.self, u, v)) = 2

\* u and v lie in one observation of the player's partitioning
SharesObservation(game, player, u, v) ==
    \E o \in Range(game.partitionings[player]) :
        u \in Range(o) /\ v \in Range(o)

\* f keeps every player's observation equivalence of distinct states
ObservationPreserving(a, b, f) ==
    \A player \in 1..Len(a.partitionings) :
        \A u, v \in a.states :
            u # v => (SharesObservation(a, player, u, v)
                          <=> SharesObservation(b, player, f[u], f[v]))

\* C12: isomorphic with consider_observations=True returns true exactly
\* when some bijection of the states keeps the initial state, the joint
\* actions between every pair of states and, for every player and every two
\* distinct states, whether the two states share an observation of that
\* player.
C12_IsomorphicObservations ==
    (IsoDone /\ arg.consider_observations) =>
        (ret <=> \E f \in Bijections(arg.self.states, arg.other.states) :
                     /\ LabelPreserving(arg.self, arg.other, f)
                     /\ ObservationPreserving(arg.self, arg.other, f))

\* C12 witness: two different games were found isomorphic with observations
\* where a transition joins two distinct states that two players cannot
\* tell apart
C12_Witness ==
    /\ IsoDone
    /\ arg.consider_observations
    /\ ret
    /\ arg.self # arg.other
    /\ \E u, v \in arg.self.states :
           /\ u # v
           /\ JointActions(arg.self, u, v) # {}
           /\ SharesObservation(arg.self, 1, u, v)
           /\ SharesObservation(arg.self, 2, u, v)

\* the classification of one iteration: 2 is STABLE_WITH_OBSERVATIONS, 1 is
\* STABLE_STRUCTURE_ONLY, 0 is NOT_STABLE
Classification(current, next) ==
    IF /\ Cardinality(current.states) = Cardinality(next.states)
       /\ isomorphic(current, next, FALSE)
    THEN IF isomorphic(current, next, TRUE) THEN 2 ELSE 1
    ELSE 0

\* the while condition of iterate_until_isomorphic for i = n
WithinLimit(n) == limit = -1 \/ n < limit

\* C13: every iteration is classified from current and next = current.KBSC()
\* as STABLE_WITH_OBSERVATIONS, STABLE_STRUCTURE_ONLY or NOT_STABLE, in the
\* status and in the log; the loop stops before the limit only at the first
\* STABLE_WITH_OBSERVATIONS iteration and goes on with next after the two
\* other classifications; the returned status is the classification of the
\* last iteration performed.
C13_Classification ==
    [][/\ iteration' = iteration + 1 =>
             /\ last_iso' = Classification(G, K)
             /\ log' = Append(log, p(iteration', Cardinality(K.states),
                                     Classification(G, K)))
             /\ last_iso' = 2 => pc' = "return"
             /\ last_iso' # 2 => (pc' = "while" /\ G' = K)
       /\ pc' = "return" =>
             /\ last_iso' = 2 \/ ~WithinLimit(iteration')
             /\ iteration' >= 1 => last_iso' = log'[Len(log')].iso
             /\ \A k \in 1..(Len(log') - 1) : log'[k].iso # 2]_vars

\* C13 witness: the driver has returned before its limit with status
\* STABLE_WITH_OBSERVATIONS after an iteration classified NOT_STABLE and one
\* classified STABLE_STRUCTURE_ONLY
C13_Witness ==
    /\ pc = "return"
    /\ last_iso = 2
    /\ limit > iteration
    /\ \E j, k \in 2..Len(log) : log[j].iso = 0 /\ log[k].iso = 1

\* a call of KBSC by the driver is under way or has just returned
InKBSC == pc \in {"KBSC", "single", "single_loop", "product", "product_loop", "done"}

\* C14: with a limit L >= 0 the driver applies KBSC at most L times; when it
\* returns without an iteration classified STABLE_WITH_OBSERVATIONS it has
\* applied KBSC exactly L times and returns the L-th iterate of its
\* argument, the argument itself for L = 0.
C14_Limit ==
    limit >= 0 =>
        /\ iteration <= limit
        /\ InKBSC => iteration < limit
        /\ (pc = "return" /\ \A k \in 1..Len(log) : log[k].iso # 2) =>
               /\ iteration = limit
               /\ G = Iterate(arg.G, limit)

\* C14 witness: the driver returned the second iterate at limit 2, and it
\* is a different game from the first iterate
C14_Witness ==
    /\ pc = "return"
    /\ limit = 2
    /\ iteration = 2
    /\ last_iso # 2
    /\ Cardinality(G.states) # Cardinality(KBSC(arg.G).states)

\* C15: when the driver returns status STABLE_WITH_OBSERVATIONS with game
\* R, KBSC(R) has as many states as R and R.isomorphic(KBSC(R),
\* consider_observations=True) holds.
C15_StableResult ==
    (pc = "return" /\ last_iso = 2) =>
        /\ Cardinality(KBSC(G).states) = Cardinality(G.states)
        /\ isomorphic(G, KBSC(G), TRUE)

\* C15 witness: the driver returned STABLE_WITH_OBSERVATIONS on the wagon
\* game, after an iteration that was stable in structure only
C15_Witness ==
    /\ pc = "return"
    /\ last_iso = 2
    /\ Cardinality(G.states) = 15
    /\ log[Len(log) - 1].iso = 1

\* some player's alphabet holds an action twice
DuplicateAction(alphabet) ==
    \E i \in 1..Len(alphabet) :
        Cardinality(Range(alphabet[i])) < Len(alphabet[i])

\* how many times a grouping lists the atom
Listed(grouping, atom) ==
    Cardinality({gk \in {<<g, k>> : g \in 1..Len(grouping), k \in 1..MaxGrouped} :
                    /\ gk[2] <= Len(grouping[gk[1]])
                    /\ grouping[gk[1]][gk[2]] = atom})

\* some player's grouping misses a state or lists a state twice
NotPartition(a) ==
    \E i \in 1..Len(a.state_groupings) : \E s \in a.content :
        Listed(a.state_groupings[i], s) # 1

\* some transition names an action that is not in the alphabet of the
\* player it belongs to
UnknownAction(a) ==
    \E k \in 1..Len(a.transition_edges) : \E i \in 1..Len(a.alphabet) :
        a.transition_edges[k][2][i] \notin Range(a.alphabet[i])

\* the initial atom, a transition endpoint or a grouped atom is no state
UnknownAtom(a) ==
    \/ a.initial \notin a.content
    \/ \E k \in 1..Len(a.transition_edges) :
          \/ a.transition_edges[k][1] \notin a.content
          \/ a.transition_edges[k][3] \notin a.content
    \/ \E i \in 1..Len(a.state_groupings) : \E s \in Atoms \ a.content :
          Listed(a.state_groupings[i], s) > 0

\* C16: create raises and returns no game whenever an alphabet holds a
\* duplicate action, a grouping misses a state or lists one twice, a
\* transition names an action outside the player's alphabet, or the initial
\* atom, a transition endpoint or a grouped atom is none of the states;
\* Alphabet(...) alone raises on a duplicate action.
C16_CreateRaises ==
    /\ pc = "create_done" =>
          ((\/ DuplicateAction(arg.alphabet)
            \/ NotPartition(arg)
            \/ UnknownAction(arg)
            \/ UnknownAtom(arg)) => ret.raised)
    /\ pc = "alphabet_done" =>
          (DuplicateAction(arg.alphabet) => ret.raised)

\* C16 witness: create raised on an input whose only defect is a state
\* listed twice by the first player's grouping
C16_Witness ==
    /\ pc = "create_done"
    /\ ret.raised
    /\ ~DuplicateAction(arg.alphabet)
    /\ ~UnknownAction(arg)
    /\ ~UnknownAtom(arg)
    /\ arg.transition_edges # <<>>
    /\ \A s \in arg.content : Listed(arg.state_groupings[1], s) >= 1
    /\ \E s \in arg.content : Listed(arg.state_groupings[1], s) = 2

\* the product of the players' action sets, as tuples
JointActionProduct(alphabet) ==
    {ja \in [1..Len(alphabet) -> PermuteActions] :
        \A i \in 1..Len(alphabet) : ja[i] \in Range(alphabet[i])}

\* C17: for an alphabet of one or more players permute() yields every
\* element of the product of the players' alphabets exactly once and
\* nothing else, and nothing at all when some player's alphabet is empty.
C17_Permute ==
    pc = "permute_done" =>
        /\ Range(ret) = JointActionProduct(arg)
        /\ Len(ret) = Cardinality(JointActionProduct(arg))
        /\ (\E i \in 1..Len(arg) : arg[i] = <<>>) => ret = <<>>

\* C17 witness: permute has yielded the eight joint actions of three
\* players with two actions each
C17_Witness ==
    /\ pc = "permute_done"
    /\ Len(arg) = 3
    /\ \A i \in 1..3 : Len(arg[i]) = 2
    /\ Len(ret) = 8

\* from_string(to_string(G)) has returned or raised
Parsed == pc = "parsed"

\* C18: for a base game or a KBSC iterate G, from_string(to_string(G))
\* returns a game, which is isomorphic to G with observations and has G's
\* alphabet.
C18_RoundTrip ==
    Parsed =>
        /\ ~ret.parsed.raised
        /\ isomorphic(arg.game, ret.parsed.value, TRUE)
        /\ ret.parsed.value.alphabet = arg.game.alphabet

\* the round trip of C18 for the games whose atoms are natural numbers
RoundTripOfNaturals ==
    (Parsed /\ \A line \in Range(ret.string.base_states) : line[2][1] # "-")
        => /\ ~ret.parsed.raised
           /\ isomorphic(arg.game, ret.parsed.value, TRUE)
           /\ ret.parsed.value.alphabet = arg.game.alphabet


\* consistent_base has returned or raised
BaseDone == pc = "consistent_base_done"

\* C19: for every state s of a game produced by one or more applications
\* of KBSC, with one player or several, consistent_base(s) returns without
\* error a non-empty set of states of the base game; after one application
\* it is the intersection of the knowledges of s.
C19_ConsistentBase ==
    BaseDone =>
        /\ ~ret.result.raised
        /\ ret.result.value # {}
        /\ ret.result.value \subseteq arg.game.states
        /\ arg.depth = 1 =>
               ret.result.value =
                   Intersection([player \in 1..Len(ret.state) |->
                                    ret.state[player]])

\* C19 for the games of several players
ConsistentBaseOfProduct ==
    (BaseDone /\ arg.game.player_count > 1) =>
        /\ ~ret.result.raised
        /\ ret.result.value # {}
        /\ ret.result.value \subseteq arg.game.states
        /\ arg.depth = 1 =>
               ret.result.value =
                   Intersection([player \in 1..Len(ret.state) |->
                                    ret.state[player]])

\* consistent_base raises for the states of a game of one player
ConsistentBaseOfSingleRaises ==
    (BaseDone /\ arg.game.player_count = 1) => ret.result.raised


\* the knowledge pair of a product state over the wagon game, by atoms
knowledge_pair(state) ==
    <<{a[1] : a \in state[1]}, {a[1] : a \in state[2]}>>

\* the transitions of the returned game that leave a state under a joint
\* action, by position
Outgoing(state, joint_action) ==
    {k \in 1..Len(K.transitions) :
        /\ K.transitions[k].start = state
        /\ K.transitions[k].joint_action = joint_action}

\* the call of KBSC on the wagon game has returned
WagonDone == MultiDone /\ G = wagon

\* C20: KBSC of the wagon game has exactly the 8 knowledge pairs that
\* wagon_kbsc lists as states, one outgoing transition per state and joint
\* action, namely the listed one, and the listed observations, which group
\* the states by component; it is isomorphic with observations to
\* wagon_kbsc and has its alphabet.
C20_WagonKBSC ==
    WagonDone =>
        /\ Cardinality(K.states) = 8
        /\ {knowledge_pair(s) : s \in K.states} = Range(wagon_kbsc_pairs)
        /\ \A s \in K.states : \A a \in Range(permute(K.alphabet)) :
               Cardinality(Outgoing(s, a)) = 1
        /\ {<<knowledge_pair(t.start), t.joint_action, knowledge_pair(t.end)>> :
               t \in Range(K.transitions)}
             = {<<wagon_kbsc_pairs[e[1]], e[2], wagon_kbsc_pairs[e[3]]>> :
                   e \in Range(wagon_kbsc_transitions)}
        /\ \A i \in 1..2 :
               /\ {{knowledge_pair(s) : s \in Range(o)} :
                      o \in Range(K.partitionings[i])}
                    = {{wagon_kbsc_pairs[k] : k \in Range(o)} :
                          o \in Range(wagon_kbsc_observations[i])}
               /\ \A a, b \in K.states :
                      SameObservation(K.partitionings[i], a, b)
                          <=> a[i] = b[i]
        /\ isomorphic(K, wagon_kbsc, TRUE)
        /\ K.alphabet = wagon_kbsc.alphabet

\* C20 witness: KBSC has returned for the wagon game with the state in
\* which the first player holds {0, 1} and the second {0, 2} possible
C20_Witness ==
    /\ WagonDone
    /\ \E s \in K.states : knowledge_pair(s) = <<{0, 1}, {0, 2}>>
    /\ Len(K.transitions) = 32


\* iterate_until_isomorphic is running on the wagon game without a limit
WagonUnlimited == arg.G = wagon /\ limit = -1

\* the state counts of the log do not decrease
Monotone == \A k \in 1..(Len(log) - 1) : log[k].size <= log[k + 1].size

\* the last two state counts of the log are equal
Stable == Len(log) >= 2 /\ log[Len(log)].size = log[Len(log) - 1].size

\* C21: iterate_until_isomorphic on the wagon game without a limit returns
\* after an iteration classified as stable with observations, with a log
\* whose state counts never decrease and whose last two counts are equal.
\* As a property of the finite run: whenever the run stands at the head of
\* the loop it has made fewer than MaxIterations iterations, so that it is
\* the break and never the bound that ends it; the state counts logged so
\* far never decrease; and at the return the last iteration, and no
\* earlier one, is classified 2 and the last two counts are equal.
C21_WagonStabilises ==
    WagonUnlimited =>
        /\ pc = "while" => iteration < MaxIterations
        /\ Monotone
        /\ pc = "return" =>
               /\ last_iso = 2
               /\ log[Len(log)].iso = 2
               /\ \A k \in 1..(Len(log) - 1) : log[k].iso # 2
               /\ Stable

\* C21 witness: the run on the wagon game without a limit has returned
\* after growing from 3 to 15 states
C21_Witness ==
    /\ WagonUnlimited
    /\ pc = "return"
    /\ last_iso = 2
    /\ log[1].size = 3
    /\ log[Len(log)].size = 15


\* C22: whatever end of the worklist a run of KBSC takes its entries from
\* and in whatever order it visits the pairs of its inner loops, the game
\* it returns has the states, the initial state, the set of transitions
\* and the observations of the game that the run in the order of the code
\* returns, and its alphabet and graph.
C22_OrderIndependent == pc = "done" => SameGame(K, KBSC(G))

\* C22 witness: a run that takes the worklist from the left and visits
\* the pairs backwards has returned a game with its transitions in
\* another order than the run in the order of the code
C22_Witness ==
    /\ pc = "done"
    /\ arg.pop_left
    /\ arg.reverse
    /\ G.player_count > 1
    /\ Cardinality(K.states) > 2
    /\ K.transitions # KBSC(G).transitions


\* C23: KBSC(G), project(G, i) and G.isomorphic(G') leave their games as
\* they are. No step of a call of KBSC, the projections included, changes
\* the game it was called on (states with their knowledges, initial state,
\* alphabet, transitions, partitionings, graph); the single-player loop
\* leaves the projection it runs on unchanged, and a finished single-player
\* game stays as it is while the others are built; the comparison of
\* current with current.KBSC() leaves both unchanged, the driver going on
\* with one of the two.
C23_InputsUnchanged ==
    [][/\ pc # "done" => G' = G
       /\ pc \in {"single", "single_loop"} => P' = P
       /\ pc # "while" =>
              \A k \in 1..Len(games) : Len(games') >= k /\ games'[k] = games[k]
       /\ pc = "done" =>
              /\ K' = K
              /\ IF pc' = "return" THEN G' = G ELSE G' = K]_vars

\* C23 witness: in the second iteration of the driver, after KBSC with
\* its projections and the comparison have run once, KBSC has returned
\* again for a game of several players
C23_Witness ==
    /\ pc = "done"
    /\ iteration >= 1
    /\ G.player_count > 1
    /\ Len(games) = G.player_count
    /\ Cardinality(K.states) > Cardinality(G.states)


\* to_string has returned the text
Serialized == pc \in {"from_string", "parsed"}

\* the ids of the base state lines and of the knowledge state lines
BaseIds == {line[1] : line \in Range(ret.string.base_states)}

KnowledgeIds == {line[1] : line \in Range(ret.string.knowledge_states)}

\* the ids a knowledge state line refers to
Referred(line) == UNION {Range(line[2][player]) : player \in 1..Len(line[2])}

\* the ids emitted before the knowledge state line at position j
EmittedBefore(j) ==
    BaseIds \cup {ret.string.knowledge_states[k][1] : k \in 1..(j - 1)}

\* the ids used in the initial state, observation and transition sections
UsedIds ==
    {ret.string.initial_state}
    \cup UNION {Range(observation) :
                   observation \in UNION {Range(line) :
                       line \in Range(ret.string.observations)}}
    \cup UNION {{line[1], line[3]} : line \in Range(ret.string.transitions)}

\* C24: to_string(G) gives the states the ids 0, 1, 2, ... without gap or
\* repetition, the base atoms first; every knowledge state line refers only
\* to ids smaller than its own that were emitted before it; and every id
\* in the initial state, observation and transition sections is an emitted
\* id.
C24_Ids ==
    Serialized =>
        LET nb == Len(ret.string.base_states)
            nk == Len(ret.string.knowledge_states)
        IN /\ BaseIds = 0..(nb - 1)
           /\ KnowledgeIds = nb..(nb + nk - 1)
           /\ Cardinality(BaseIds) = nb
           /\ Cardinality(KnowledgeIds) = nk
           /\ \A j \in 1..nk :
                  LET line == ret.string.knowledge_states[j]
                  IN /\ \A r \in Referred(line) : r < line[1]
                     /\ Referred(line) \subseteq EmittedBefore(j)
           /\ UsedIds \subseteq BaseIds \cup KnowledgeIds

\* C24 witness: the text of a game two applications of KBSC above its base
\* game has a knowledge state line that refers to another knowledge state
C24_Witness ==
    /\ Serialized
    /\ arg.depth = 2
    /\ Cardinality(arg.game.states) > 2
    /\ \E line \in Range(ret.string.knowledge_states) :
           Referred(line) \cap KnowledgeIds # {}


\* the transitions of the returned game that answer the base transition b
\* from the product state Q
Answers(Q, b) ==
    {t \in TransitionSet(K) :
        /\ t.start = Q
        /\ t.joint_action = b.joint_action
        /\ b.end \in Intersection(t.end)}

\* C25: the multi-player KBSC keeps every move of the game it is applied
\* to: for every state Q of the returned game and every transition
\* (s, a, s') of the game with s in the intersection of Q, the returned
\* game has a transition (Q, a, Q') with s' in the intersection of Q'.
C25_MovesPreserved ==
    MultiDone =>
        \A Q \in K.states : \A b \in TransitionSet(G) :
            b.start \in Intersection(Q) => Answers(Q, b) # {}

\* C25 witness: the returned game has a state from which two transitions
\* of the base game under one joint action are answered by transitions to
\* different states
C25_Witness ==
    /\ MultiDone
    /\ \E Q \in K.states : \E b, c \in TransitionSet(G) :
           /\ b.start \in Intersection(Q)
           /\ c.start \in Intersection(Q)
           /\ b.joint_action = c.joint_action
           /\ Answers(Q, b) # {}
           /\ Answers(Q, b) \cap Answers(Q, c) = {}


\* the transition of player i's game that a transition of the product is
\* made of
Component(t, i) ==
    Transition(State(<<t.start[i]>>), <<t.joint_action[i]>>,
               State(<<t.end[i]>>))

\* C26: every transition (Q, a, Q') of the game the multi-player KBSC
\* returns is, for every player i, made of a transition (q_i, (a_i,), q'_i)
\* of KBSC(project(G, i)), and q'_i meets post(G, a, intersection of Q).
C26_ComponentWise ==
    MultiDone =>
        \A t \in TransitionSet(K) : \A i \in 1..G.player_count :
            /\ Component(t, i) \in TransitionSet(KBSC(project(G, i)))
            /\ t.end[i] \cap PostT(G, t.joint_action, Intersection(t.start)) # {}

\* C26 witness: the returned game has a transition from a state Q where a
\* player's game has another transition under the same action, to a
\* knowledge that does not meet the successors of the intersection of Q
C26_Witness ==
    /\ MultiDone
    /\ \E t \in TransitionSet(K) : \E i \in 1..G.player_count :
           \E u \in TransitionSet(KBSC(project(G, i))) :
               /\ u.start = State(<<t.start[i]>>)
               /\ u.joint_action = <<t.joint_action[i]>>
               /\ u.end[1] \cap PostT(G, t.joint_action,
                                      Intersection(t.start)) = {}


\* the observations of the only player of a game that contain a knowledge
Containing(input, knowledge) ==
    {o \in 1..Len(input.partitionings[1]) :
        knowledge \subseteq Range(input.partitionings[1][o])}

\* a game of one player is a single-player KBSC result for input: every
\* state is one non-empty set of states of input inside exactly one
\* observation, and no two states carry the same set
SingleResult(game, input) ==
    /\ \A s \in game.states :
           /\ Len(s) = 1
           /\ s[1] # {}
           /\ s[1] \subseteq input.states
           /\ Cardinality(Containing(input, s[1])) = 1
    /\ \A s, t \in game.states : s[1] = t[1] => s = t

SecondDone == pc = "done" /\ iteration >= 1 /\ G.player_count > 1

\* C28: when the multi-player KBSC is applied to a game that is itself a
\* result of the multi-player KBSC, the intersection of the components of
\* every state of the new game is exactly one state of the previous game.
C28_UniquePredecessor ==
    SecondDone =>
        \A Q \in K.states :
            /\ Cardinality(Intersection(Q)) = 1
            /\ Intersection(Q) \subseteq G.states

\* C28 witness: the second application has returned a game with a state in
\* which both players hold two states of the first result possible
C28_Witness ==
    /\ SecondDone
    /\ \E Q \in K.states :
           /\ Cardinality(Q[1]) >= 2
           /\ Cardinality(Q[2]) >= 2


\* a turn of a worklist loop, where popped is the entry's state or tuple:
\* either it expands popped, which was not expanded before and is recorded
\* in tested, or it only drops the entry
Turn(popped) ==
    \/ /\ popped \notin tested
       /\ tested' = tested \cup {popped}
    \/ /\ popped \in tested
       /\ tested' = tested
       /\ states' = states
       /\ transitions' = transitions
       /\ Len(queue') = Len(queue) - 1

\* the tuples of states of the single-player games
ProductTuples ==
    {tuple \in [1..Len(games) -> UNION {games[i].states : i \in 1..Len(games)}] :
        \A i \in 1..Len(games) : tuple[i] \in games[i].states}

\* C29: single-player KBSC and the synchronous product terminate. Every
\* turn of either loop expands a knowledge set, respectively a product
\* tuple, that was not expanded before, or shortens the worklist without
\* any other change; what is expanded is a non-empty set of states of the
\* input game, respectively a tuple of states of the single-player games,
\* of which there are finitely many; an empty worklist ends the loop with
\* the return, and nothing is left to expand in the returned game.
C29_Terminates ==
    [][/\ (pc = "single_loop" /\ pc' = "single_loop") =>
              /\ Turn(queue[Len(queue)])
              /\ \A s \in tested' : s[1] \in (SUBSET P.states) \ {{}}
       /\ (pc = "product_loop" /\ pc' = "product_loop") =>
              /\ Turn(queue[Len(queue)][1])
              /\ tested' \subseteq ProductTuples
       /\ (pc = "single_loop" /\ pc' # pc) =>
              /\ queue = <<>>
              /\ tested = {states[k] : k \in DOMAIN states}
       /\ (pc = "product_loop" /\ pc' # pc) =>
              /\ queue = <<>>
              /\ {SeqMap(LAMBDA s : s[1], tuple) : tuple \in tested}
                     = DOMAIN states]_vars

\* C29 witness: the product loop has ended for a game of several players
\* after expanding at least four tuples, each of them once
C29_Witness ==
    /\ pc = "done"
    /\ G.player_count > 1
    /\ queue = <<>>
    /\ Cardinality(tested) >= 4
    /\ Cardinality(tested) = Cardinality(K.states)

====
